---- MODULE Spec2Model ----
(***************************************************************************)
(* Model of the hannos kernel heap allocators:                             *)
(*   src/src/allocator/bump.rs   BumpAllocator                             *)
(*   src/src/allocator/buddy.rs  BuddyAllocator                            *)
(*   src/src/allocator/fixed.rs  FixedSizeAllocator                        *)
(* Each allocator has its own specification (SpecBump, SpecBuddy,          *)
(* SpecFixed).  Addresses are absolute byte addresses; 0 is the null       *)
(* pointer.                                                                *)
(***************************************************************************)
EXTENDS Integers, Sequences, FiniteSets, TLC

VARIABLES
    phase,      \* "new" after new(), "ready" after init()
    bump,       \* BumpAllocator { heap_start, heap_end, next, allocations }
    buddy,      \* BuddyAllocator { heap_start, heap_order }
    mem,        \* buddy heap bytes written so far: address -> byte
    fixed,      \* FixedSizeAllocator { heap_start, heap_size, used_memory, free_list }
    node_next,  \* ListNode.next stored in the heap: address -> address or NULL
    live,       \* allocations handed out and not yet deallocated (caller's view)
    last,       \* the last GlobalAlloc call and what it returned
    nOps,       \* number of alloc/dealloc calls made so far
    cpu,        \* the core: who holds the allocator lock, and where the task
                \* and the interrupt handler are in their GlobalAlloc calls
    disk,       \* fs/disk.rs: the simulated disk and the last call on it
    kbd,        \* task/keyboard.rs: SCANCODE_QUEUE, WAKER, the stream's task
                \* and the keyboard interrupt handler
    fs,         \* fs/file.rs: the block device, the mounted FileSystem
    exec,       \* task/simple_executor.rs: SimpleExecutor and its tasks
    shell       \* shell.rs: Shell

vars == <<phase, bump, buddy, mem, fixed, node_next, live, last, nOps, cpu, disk,
          kbd, fs, exec, shell>>

\* the allocator and its callers
allocVars == <<phase, bump, buddy, mem, fixed, node_next, live, last, nOps, cpu>>

NULL == 0

\* ---------------------------------------------------------------- bounds
BumpMaxLive == 3
BumpMaxOps == 7
BuddyMaxLive == 5
BuddyMaxOps == 5
FixedMaxLive == 3
FixedMaxOps == 5
CycleMaxOps == 36
ZeroMaxLive == 3
ZeroMaxOps == 5
LockMaxOps == 4
DiskMaxOps == 3
KbdMaxKeys == 4
FsMaxOps == 4
ExecMaxTasks == 3
ShellMaxLen == 2
ShellMaxHistory == 2

\* ------------------------------------------------------------- helpers

\* super::align_up: round addr up to the next multiple of align.
align_up(addr, align) == ((addr + align - 1) \div align) * align

\* A call record: op, the layout, the pointer returned or passed, and blk,
\* the block the call is about (alloc: the block taken; dealloc: the block
\* the allocation had been given), and wrote, the address dealloc wrote to.
NoCall ==
    [op |-> "none", size |-> 0, align |-> 1, ptr |-> NULL, blk |-> NULL,
     wrote |-> NULL]
Call(op, size, align, ptr, blk, wrote) ==
    [op |-> op, size |-> size, align |-> align, ptr |-> ptr, blk |-> blk,
     wrote |-> wrote]

Layout(size, align, ptr, blk) ==
    [size |-> size, align |-> align, ptr |-> ptr, blk |-> blk]

\* The caller's record of live allocations after alloc returned ptr.
Took(size, align, ptr, blk) ==
    IF ptr = NULL THEN live ELSE Append(live, Layout(size, align, ptr, blk))

\* The caller's record after it has given live[i] back.
Gave(i) == [j \in 1..(Len(live) - 1) |-> IF j < i THEN live[j] ELSE live[j + 1]]

RangesDisjoint(a, b) ==
    \/ a.size = 0
    \/ b.size = 0
    \/ a.ptr + a.size <= b.ptr
    \/ b.ptr + b.size <= a.ptr

\* ======================================================== BumpAllocator

BumpHeapStarts == {4096, 4100}
BumpHeapSizes == {128, 1024}
BumpSizes == {0, 50, 100}
BumpAligns == {8, 16}

BumpNew == [heap_start |-> 0, heap_end |-> 0, next |-> 0, allocations |-> 0]

BumpInitCall(heap_start, heap_size) ==
    /\ phase = "new"
    /\ phase' = "ready"
    /\ bump' = [bump EXCEPT !.heap_start = heap_start,
                            !.heap_end = heap_start + heap_size,
                            !.next = heap_start]
    /\ last' = Call("init", heap_size, 1, heap_start, NULL, NULL)
    /\ UNCHANGED <<buddy, mem, fixed, node_next, live, nOps>>

BumpInit(heap_start, heap_size) ==
    BumpInitCall(heap_start, heap_size) /\ UNCHANGED <<cpu, disk, kbd, fs, exec, shell>>

\* Mutant: the cursor is used as it is, without aligning it.
BumpStart_NoAlign(align) == bump.next

\* let start = align_up(a.next, layout.align())
BumpStart(align) == align_up(bump.next, align)

BumpAllocCall(size, align) ==
    /\ phase = "ready"
    /\ nOps' = nOps + 1
    /\ LET start == BumpStart(align)
           end == start + size
           \* checked_add only fails past 2^64, far above every address here
           ptr == IF end > bump.heap_end THEN NULL ELSE start
       IN /\ bump' = IF ptr = NULL THEN bump
                     ELSE [bump EXCEPT !.next = end,
                                       !.allocations = bump.allocations + 1]
          /\ live' = Took(size, align, ptr, ptr)
          /\ last' = Call("alloc", size, align, ptr, ptr, NULL)
    /\ UNCHANGED <<phase, buddy, mem, fixed, node_next>>

BumpAlloc(size, align) ==
    /\ Len(live) < BumpMaxLive
    /\ nOps < BumpMaxOps
    /\ BumpAllocCall(size, align)
    /\ UNCHANGED <<cpu, disk, kbd, fs, exec, shell>>

\* Mutant: the reset of the cursor is forgotten.
BumpAfterDealloc_NoReset ==
    [bump EXCEPT !.allocations = bump.allocations - 1]

\* Mutant: the count is not decremented.
BumpAfterDealloc_KeepCount == bump

\* Mutant: the cursor is rewound on every dealloc.
BumpAfterDealloc_Rewind ==
    [bump EXCEPT !.allocations = bump.allocations - 1,
                 !.next = bump.heap_start]

BumpAfterDealloc ==
    LET n == bump.allocations - 1
    IN [bump EXCEPT !.allocations = n,
                    !.next = IF n = 0 THEN bump.heap_start ELSE bump.next]

BumpDeallocCall(i) ==
    /\ phase = "ready"
    /\ i \in 1..Len(live)
    /\ nOps' = nOps + 1
    /\ bump' = BumpAfterDealloc
    /\ live' = Gave(i)
    /\ last' = Call("dealloc", live[i].size, live[i].align, live[i].ptr,
                    live[i].blk, NULL)
    /\ UNCHANGED <<phase, buddy, mem, fixed, node_next>>

BumpDealloc(i) ==
    /\ nOps < BumpMaxOps
    /\ BumpDeallocCall(i)
    /\ UNCHANGED <<cpu, disk, kbd, fs, exec, shell>>

\* ------------------------------------------------ BumpAllocator claims

\* C3: every live pointer returned by the bump allocator is a multiple of
\* the requested alignment, its size bytes lie inside [heap_start, heap_end),
\* and no two allocations that are live at the same time overlap.
C3_BumpAlignedInHeapDisjoint ==
    \A i \in 1..Len(live) :
        /\ live[i].ptr # NULL
        /\ live[i].ptr % live[i].align = 0
        /\ bump.heap_start <= live[i].ptr
        /\ live[i].ptr + live[i].size <= bump.heap_end
        /\ \A j \in 1..Len(live) : i # j => RangesDisjoint(live[i], live[j])

\* Three allocations are live, one of them 16-aligned behind padding, after
\* an earlier allocation has already been given back.
C3_Witness ==
    /\ Len(live) = 3
    /\ bump.allocations = 3
    /\ nOps > 3
    /\ \E i \in 1..3 : /\ live[i].align = 16 /\ live[i].size = 50
                        /\ live[i].ptr # bump.heap_start
                        /\ \A j \in 1..3 : live[j].ptr + live[j].size # live[i].ptr

\* C10: a dealloc that brings the count to 0 leaves next = heap_start, and
\* the next successful alloc returns heap_start aligned up to its alignment.
C10_BumpResetOnZero ==
    [][ /\ (last'.op = "dealloc" /\ bump'.allocations = 0)
            => bump'.next = bump'.heap_start
        /\ (last.op = "dealloc" /\ bump.allocations = 0
              /\ last'.op = "alloc" /\ last'.ptr # NULL)
            => last'.ptr = align_up(bump.heap_start, last'.align) ]_vars

\* 1024-byte heap: three allocations and three deallocs later, a 50-byte
\* allocation is the only live one and starts at heap_start.
C10_Witness ==
    /\ bump.heap_end - bump.heap_start = 1024
    /\ nOps = 7
    /\ bump.allocations = 1
    /\ last.op = "alloc" /\ last.size = 50 /\ last.align = 8
    /\ last.ptr = bump.heap_start


\* C21: after init, heap_start <= next <= heap_end, and allocations is the
\* number of successful allocs minus the number of deallocs, that is the
\* number of live allocations, and so never negative.
C21_BumpCursorAndCount ==
    phase = "ready" =>
        /\ bump.heap_start <= bump.next
        /\ bump.next <= bump.heap_end
        /\ bump.allocations = Len(live)
        /\ bump.allocations >= 0

\* Allocs and deallocs have been mixed: two allocations are live behind a
\* moved cursor, and at least one dealloc was made.
C21_Witness ==
    /\ phase = "ready"
    /\ bump.allocations = 2 /\ Len(live) = 2
    /\ nOps >= 4
    /\ last.op = "dealloc"
    /\ bump.next > bump.heap_start

\* C30: a dealloc that leaves allocations > 0 changes only the count; while
\* allocations stay live the cursor never moves back, and an alloc made
\* then returns bytes at or above the cursor, so above every allocation
\* handed out since the count was last 0.
C30_BumpDeallocKeepsCursor ==
    [][ phase = "ready" =>
          /\ (last'.op = "dealloc" /\ nOps' # nOps /\ bump'.allocations > 0) =>
                /\ bump'.next = bump.next
                /\ bump'.heap_start = bump.heap_start
                /\ bump'.heap_end = bump.heap_end
                /\ bump'.allocations = bump.allocations - 1
          /\ (bump.allocations > 0 /\ bump'.allocations > 0) =>
                bump'.next >= bump.next
          /\ (last'.op = "alloc" /\ nOps' # nOps /\ last'.ptr # NULL
                /\ bump.allocations > 0) =>
                /\ last'.ptr >= bump.next
                /\ \A i \in 1..Len(live) :
                      live[i].ptr + live[i].size <= last'.ptr ]_vars

\* The first of two allocations was given back (the oldest live allocation
\* does not start the heap), and the alloc made after it got bytes above
\* both.
C30_Witness ==
    /\ phase = "ready"
    /\ nOps = 4 /\ Len(live) = 2
    /\ last.op = "alloc" /\ last.ptr # NULL /\ last.size > 0
    /\ live[1].ptr >= bump.heap_start + 50
    /\ last.ptr >= live[1].ptr + live[1].size

\* ======================================================= BuddyAllocator

BLOCK_SIZE == 16
MAX_ORDER == 24
\* size_of::<Block>(): #[repr(C)] { order: u8, is_free: bool }
SIZE_OF_BLOCK == 2

BuddyHeapStarts == {4096}
\* 254 and 256 round to one order-4 and one order-5 block; 16 * 2^24 is
\* buddy.rs's HEAP_SIZE, whose order is capped by MAX_ORDER.
BuddyHeapSizes == {254, 256, 268435456}
BuddySizes == {1, 40, 268435454, 268435455}
BuddyAligns == {2, 16}

\* BLOCK_SIZE << order
Shl(order) == BLOCK_SIZE * 2^order

\* Mutant: the loop forgets the header ("current_size < size").
RECURSIVE order_loop_NoHeader(_, _, _)
order_loop_NoHeader(current_size, order, size) ==
    IF current_size < size
    THEN order_loop_NoHeader(current_size * 2, order + 1, size)
    ELSE order

\* BuddyAllocator::order: the while loop, from current_size = BLOCK_SIZE.
RECURSIVE order_loop(_, _, _)
order_loop(current_size, order, size) ==
    IF current_size - SIZE_OF_BLOCK < size
    THEN order_loop(current_size * 2, order + 1, size)
    ELSE order

Order(size) == order_loop(BLOCK_SIZE, 0, size)

Min(a, b) == IF a < b THEN a ELSE b

\* Block fields as stored in the heap: order at offset 0, is_free at offset 1.
BlockOrder(m, h) == m[h]
BlockIsFree(m, h) == m[h + 1] = 1

\* ptr.write(Block { order, is_free }) / field stores
WriteByte(m, a, b) == [x \in DOMAIN m \cup {a} |-> IF x = a THEN b ELSE m[x]]
WriteBlock(m, h, order, is_free) ==
    WriteByte(WriteByte(m, h, order), h + 1, IF is_free THEN 1 ELSE 0)

\* Block::size
BlockSize(m, h) == Shl(BlockOrder(m, h))

\* Block::next_free_addr
next_free_addr(m, h) == h + BlockSize(m, h)

\* Mutant: header and payload share the block's first bytes.
get_memory_ptr_NoHeader(h, align) == align_up(h, align)

\* Block::get_memory_ptr: the address after the header, aligned up.
get_memory_ptr(h, align) == align_up(h + SIZE_OF_BLOCK, align)

\* Mutant: the sibling header is written with the parent's order.
split_SiblingKeepsOrder(m, h) ==
    LET o == BlockOrder(m, h) - 1
        m1 == WriteByte(m, h, o)
    IN WriteBlock(m1, next_free_addr(m1, h), o + 1, TRUE)

\* Block::split, called on a free block of order > 0 (it panics otherwise).
split(m, h) ==
    LET o == BlockOrder(m, h) - 1
        m1 == WriteByte(m, h, o)
    IN WriteBlock(m1, next_free_addr(m1, h), o, TRUE)

\* BuddyAllocator::heap_size
BuddyHeapSize == Shl(buddy.heap_order)

\* BuddyAllocator::next_block: NULL stands for None.
next_block(m, h) ==
    LET n == next_free_addr(m, h)
    IN IF n - buddy.heap_start >= BuddyHeapSize THEN NULL ELSE n

\* Mutant: the scan takes the first block that is large enough, free or not.
RECURSIVE find_block_IgnoreFree(_, _, _)
find_block_IgnoreFree(m, h, order) ==
    IF BlockOrder(m, h) >= order THEN h
    ELSE LET n == next_block(m, h)
         IN IF n = NULL THEN NULL ELSE find_block_IgnoreFree(m, n, order)

\* Mutant: the scan takes the first free block, whatever its order.
RECURSIVE find_block_IgnoreOrder(_, _, _)
find_block_IgnoreOrder(m, h, order) ==
    IF BlockIsFree(m, h) THEN h
    ELSE LET n == next_block(m, h)
         IN IF n = NULL THEN NULL ELSE find_block_IgnoreOrder(m, n, order)

\* get_block_of_min_order, the scan: first free block of order >= order.
RECURSIVE find_block(_, _, _)
find_block(m, h, order) ==
    IF BlockIsFree(m, h) /\ BlockOrder(m, h) >= order THEN h
    ELSE LET n == next_block(m, h)
         IN IF n = NULL THEN NULL ELSE find_block(m, n, order)

\* Mutant: the block is split once ("if" for "while").
split_down_Once(m, h, order) ==
    IF BlockOrder(m, h) > order THEN split(m, h) ELSE m

\* get_block_of_min_order, the inner loop: split until the order matches.
RECURSIVE split_down(_, _, _)
split_down(m, h, order) ==
    IF BlockOrder(m, h) > order THEN split_down(split(m, h), h, order) ELSE m

\* Mutant: heap_size is rounded down to a block that fits inside it.
InitOrder_RoundDown(heap_size) ==
    LET up == Order(heap_size)
    IN Min(IF Shl(up) > heap_size /\ up > 0 THEN up - 1 ELSE up, MAX_ORDER)

\* init_inner: let order = Self::order(heap_size).min(MAX_ORDER)
InitOrder(heap_size) == Min(Order(heap_size), MAX_ORDER)

BuddyInitCall(heap_start, heap_size) ==
    /\ phase = "new"
    /\ phase' = "ready"
    /\ buddy' = [heap_start |-> heap_start, heap_order |-> InitOrder(heap_size)]
    /\ mem' = WriteBlock(mem, heap_start, InitOrder(heap_size), TRUE)
    /\ last' = Call("init", heap_size, 1, heap_start, heap_start, NULL)
    /\ UNCHANGED <<bump, fixed, node_next, live, nOps>>

BuddyInit(heap_start, heap_size) ==
    BuddyInitCall(heap_start, heap_size) /\ UNCHANGED <<cpu, disk, kbd, fs, exec, shell>>

BuddyAllocCall(size, align) ==
    /\ phase = "ready"
    /\ nOps' = nOps + 1
    /\ LET order == Order(size)
           block == IF order > MAX_ORDER THEN NULL
                    ELSE find_block(mem, buddy.heap_start, order)
           ptr == IF block = NULL THEN NULL ELSE get_memory_ptr(block, align)
       IN /\ mem' = IF block = NULL THEN mem
                    ELSE WriteByte(split_down(mem, block, order), block + 1, 0)
          /\ live' = Took(size, align, ptr, block)
          /\ last' = Call("alloc", size, align, ptr, block, NULL)
    /\ UNCHANGED <<phase, bump, buddy, fixed, node_next>>

BuddyAlloc(size, align) ==
    /\ Len(live) < BuddyMaxLive
    /\ nOps < BuddyMaxOps
    /\ BuddyAllocCall(size, align)
    /\ UNCHANGED <<cpu, disk, kbd, fs, exec, shell>>

\* Mutant: dealloc steps back over the header before it writes.
dealloc_block_WalkBack(ptr, align) ==
    CHOOSE h \in DOMAIN mem : get_memory_ptr(h, align) = ptr /\ mem[h + 1] = 0

\* dealloc: (ptr as *mut Block), the address whose is_free field is set.
dealloc_block(ptr, align) == ptr

BuddyDeallocCall(i) ==
    /\ phase = "ready"
    /\ i \in 1..Len(live)
    /\ nOps' = nOps + 1
    /\ mem' = WriteByte(mem, dealloc_block(live[i].ptr, live[i].align) + 1, 1)
    /\ live' = Gave(i)
    /\ last' = Call("dealloc", live[i].size, live[i].align, live[i].ptr,
                    live[i].blk, dealloc_block(live[i].ptr, live[i].align))
    /\ UNCHANGED <<phase, bump, buddy, fixed, node_next>>

BuddyDealloc(i) ==
    /\ nOps < BuddyMaxOps
    /\ BuddyDeallocCall(i)
    /\ UNCHANGED <<cpu, disk, kbd, fs, exec, shell>>

\* ----------------------------------------------- BuddyAllocator claims

\* The headers met by walking from h and advancing by each block's size.
RECURSIVE Walk(_, _, _)
Walk(m, h, end) ==
    IF h >= end \/ h \notin DOMAIN m \/ (h + 1) \notin DOMAIN m THEN {}
    ELSE {h} \cup Walk(m, next_free_addr(m, h), end)

BuddyHeapEnd == buddy.heap_start + Shl(buddy.heap_order)
Headers(m) == Walk(m, buddy.heap_start, BuddyHeapEnd)

\* The walk from h ends exactly at end, every header on the way written.
RECURSIVE Tiles(_, _, _)
Tiles(m, h, end) ==
    IF h = end THEN TRUE
    ELSE IF h > end \/ h \notin DOMAIN m \/ (h + 1) \notin DOMAIN m THEN FALSE
    ELSE Tiles(m, next_free_addr(m, h), end)

\* C2 (as claimed): dealloc sets is_free in the header of the block that
\* alloc had marked used, and an alloc of the same size and alignment that
\* follows immediately returns the same pointer again.
C2_BuddyDeallocFreesItsBlock ==
    [][ /\ (last'.op = "dealloc" /\ nOps' # nOps)
            => /\ last'.wrote = last'.blk
               /\ BlockIsFree(mem', last'.blk)
        /\ (last.op = "dealloc" /\ last'.op = "alloc" /\ nOps' # nOps
              /\ last'.size = last.size /\ last'.align = last.align)
            => last'.ptr = last.ptr ]_vars

\* C5: walking from heap_start by block sizes visits blocks that exactly
\* partition [heap_start, heap_start + 16 * 2^heap_order).
C5_BuddyBlocksTileHeap ==
    phase = "ready" => Tiles(mem, buddy.heap_start, BuddyHeapEnd)

\* The heap has been split into at least six blocks and a dealloc was made.
C5_Witness ==
    /\ phase = "ready"
    /\ last.op = "dealloc"
    /\ Cardinality(Headers(mem)) >= 6
    /\ \E h \in Headers(mem) : BlockOrder(mem, h) = 0 /\ ~BlockIsFree(mem, h)

\* C6: a successful alloc of required order k takes the lowest-address free
\* block of order >= k, splits it down to order k leaving one free sibling
\* of each order in between at its midpoints, marks it used, and changes no
\* other header that existed before.
C6_BuddyAllocFirstFitSplit ==
    [][ (last'.op = "alloc" /\ nOps' # nOps /\ last'.ptr # NULL) =>
          LET k == Order(last'.size)
              b == last'.blk
              old == Headers(mem)
          IN /\ b \in old
             /\ BlockIsFree(mem, b) /\ BlockOrder(mem, b) >= k
             /\ \A h \in old :
                  h < b => ~(BlockIsFree(mem, h) /\ BlockOrder(mem, h) >= k)
             /\ BlockOrder(mem', b) = k /\ ~BlockIsFree(mem', b)
             /\ \A h \in old \ {b} :
                  /\ BlockOrder(mem', h) = BlockOrder(mem, h)
                  /\ BlockIsFree(mem', h) = BlockIsFree(mem, h)
             /\ Headers(mem') \ old =
                  {b + Shl(j) : j \in k..(BlockOrder(mem, b) - 1)}
             /\ \A j \in k..(BlockOrder(mem, b) - 1) :
                  /\ BlockOrder(mem', b + Shl(j)) = j
                  /\ BlockIsFree(mem', b + Shl(j)) ]_vars

\* An order-0 allocation has just split the order-1 block at heap_start + 32
\* after two earlier blocks were taken.
C6_Witness ==
    /\ last.op = "alloc" /\ last.ptr # NULL
    /\ Order(last.size) = 0
    /\ last.blk = buddy.heap_start + 32
    /\ BlockOrder(mem, last.blk) = 0 /\ ~BlockIsFree(mem, last.blk)
    /\ BlockOrder(mem, last.blk + 16) = 0 /\ BlockIsFree(mem, last.blk + 16)

\* C9 (as claimed): init picks the largest order <= MAX_ORDER whose block
\* does not exceed heap_size, and writes exactly one free header of that
\* order at heap_start.
C9_BuddyInitRoundsDown ==
    (phase = "ready" /\ last.op = "init") =>
        /\ Shl(buddy.heap_order) <= last.size
        /\ buddy.heap_order <= MAX_ORDER
        /\ buddy.heap_order = MAX_ORDER \/ Shl(buddy.heap_order + 1) > last.size
        /\ DOMAIN mem = {buddy.heap_start, buddy.heap_start + 1}
        /\ BlockOrder(mem, buddy.heap_start) = buddy.heap_order
        /\ BlockIsFree(mem, buddy.heap_start)

\* C13 (as claimed): on a heap of one free order-4 block, the first four
\* order-0 allocations succeed and, none of them freed, the fifth returns
\* null.
C13_BuddyFifthOrder0Fails ==
    [][ (/\ phase = "ready" /\ buddy.heap_order = 4
         /\ Len(live) = nOps /\ nOps <= 4
         /\ \A i \in 1..Len(live) : Order(live[i].size) = 0
         /\ last'.op = "alloc" /\ nOps' # nOps /\ Order(last'.size) = 0)
        => IF nOps < 4 THEN last'.ptr # NULL ELSE last'.ptr = NULL ]_vars

\* C13 (amended): on a heap of one free order-4 block, each of the first
\* five order-0 allocations succeeds, none of them freed: the k-th takes the
\* order-0 block at heap_start + 16 * (k - 1), the fifth by splitting the
\* free order-2 block at heap_start + 64.
C13_BuddyFiveOrder0Succeed ==
    [][ (/\ phase = "ready" /\ buddy.heap_order = 4
         /\ Len(live) = nOps /\ nOps <= 4
         /\ \A i \in 1..Len(live) : Order(live[i].size) = 0
         /\ last'.op = "alloc" /\ nOps' # nOps /\ Order(last'.size) = 0)
        => /\ last'.ptr # NULL
           /\ last'.blk = buddy.heap_start + BLOCK_SIZE * nOps
           /\ BlockOrder(mem', last'.blk) = 0
           /\ ~BlockIsFree(mem', last'.blk) ]_vars

\* Five order-0 allocations are live on the order-4 heap, the fifth in the
\* block at heap_start + 64.
C13_Witness ==
    /\ phase = "ready" /\ buddy.heap_order = 4
    /\ nOps = 5 /\ Len(live) = 5
    /\ \A i \in 1..5 : Order(live[i].size) = 0
    /\ last.op = "alloc" /\ last.blk = buddy.heap_start + 64

\* C14: no header's order ever increases, and once the block at heap_start
\* has been split every alloc whose required order is heap_order returns
\* null, whatever has been deallocated since.
C14_BuddyNoCoalescing ==
    [][ phase = "ready" =>
          /\ \A h \in Headers(mem) :
                /\ h \in DOMAIN mem'
                /\ BlockOrder(mem', h) <= BlockOrder(mem, h)
          /\ (/\ BlockOrder(mem, buddy.heap_start) < buddy.heap_order
              /\ last'.op = "alloc" /\ nOps' # nOps
              /\ Order(last'.size) = buddy.heap_order)
             => last'.ptr = NULL ]_vars

\* The order-24 heap was split by a small allocation that has been given
\* back; no allocation is live, and a request for the whole heap fails.
C14_Witness ==
    /\ phase = "ready" /\ buddy.heap_order = MAX_ORDER
    /\ BlockOrder(mem, buddy.heap_start) < buddy.heap_order
    /\ Len(live) = 0 /\ nOps >= 3
    /\ last.op = "alloc" /\ Order(last.size) = buddy.heap_order
    /\ last.ptr = NULL

\* Sizes around the capacities of the orders 0..3 and 23..25.
OrderProbes ==
    {0, 1, 2, 13, 14, 15, 16, 29, 30, 31, 61, 62, 63, 125, 126, 127,
     134217726, 134217727, 268435454, 268435455}

\* The bytes a block of order k holds behind its header.
Capacity(k) == Shl(k) - SIZE_OF_BLOCK

\* order(size) is the smallest k whose capacity holds size.
OrderIsMinimal(size) ==
    /\ Capacity(Order(size)) >= size
    /\ Order(size) > 0 => Capacity(Order(size) - 1) < size

\* C22: order(size) is the smallest k such that 16 * 2^k - 2 >= size, it is
\* non-decreasing in size, order(1) = 0, each increment doubles the block;
\* and an alloc of a size whose order exceeds MAX_ORDER returns null and
\* leaves every header as it was.
C22_BuddyOrderMinimalMonotone ==
    [][ (phase = "ready" /\ last'.op = "alloc" /\ nOps' # nOps) =>
          /\ OrderIsMinimal(last'.size)
          \* the facts about order alone, looked at on the first call
          /\ nOps = 0 =>
                /\ \A s \in OrderProbes :
                      /\ OrderIsMinimal(s)
                      /\ \A t \in OrderProbes : s <= t => Order(s) <= Order(t)
                /\ Order(1) = 0
                /\ \A k \in 0..MAX_ORDER :
                      Capacity(k + 1) + SIZE_OF_BLOCK
                          = 2 * (Capacity(k) + SIZE_OF_BLOCK)
          /\ Order(last'.size) > MAX_ORDER => (last'.ptr = NULL /\ mem' = mem) ]_vars

\* On the split order-24 heap, with allocations live, a request one byte
\* above the capacity of order 24 was refused.
C22_Witness ==
    /\ phase = "ready" /\ buddy.heap_order = MAX_ORDER
    /\ Len(live) >= 1
    /\ last.op = "alloc" /\ last.size = Capacity(MAX_ORDER) + 1
    /\ Order(last.size) = MAX_ORDER + 1
    /\ last.ptr = NULL

\* C24 (as claimed): the payload [ptr, ptr + size) of every live allocation
\* starts behind the header of its block and ends inside the block, for
\* every alignment.
C24_BuddyPayloadInsideBlock ==
    \A i \in 1..Len(live) :
        /\ live[i].blk + SIZE_OF_BLOCK <= live[i].ptr
        /\ live[i].ptr + live[i].size <= live[i].blk + BlockSize(mem, live[i].blk)

\* C25 (as claimed): dealloc changes the is_free flag of no block but the
\* one of the allocation given back, and alloc never hands out a block that
\* a live allocation holds.
C25_BuddyDeallocFrame ==
    [][ phase = "ready" =>
          /\ (last'.op = "dealloc" /\ nOps' # nOps) =>
                \A h \in Headers(mem) \ {last'.blk} :
                    BlockIsFree(mem', h) = BlockIsFree(mem, h)
          /\ (last'.op = "alloc" /\ nOps' # nOps /\ last'.ptr # NULL) =>
                \A i \in 1..Len(live) : live[i].blk # last'.blk ]_vars

\* =================================================== FixedSizeAllocator

BlockSizeList == <<8, 16, 32, 64, 128, 256, 512, 1024, 2048>>
NumClasses == Len(BlockSizeList)
\* BLOCK_SIZES[i], indexed from 0 as in the source
BLOCK_SIZES(i) == BlockSizeList[i + 1]
MIN_BLOCK_SIZE == BLOCK_SIZES(0)
MAX_BLOCK_SIZE == BLOCK_SIZES(NumClasses - 1)
NONE == -1

FixedHeapStarts == {4096}
FixedHeapSizes == {64, 8192}
\* (size, align) of the requests; the huge path never reads the alignment
FixedLayouts ==
    {<<5, 8>>, <<8, 8>>, <<8, 16>>, <<16, 8>>, <<16, 16>>, <<3000, 8>>, <<4096, 8>>}

\* The allocator's fields together with the ListNode.next words in the heap.
FixedSelf ==
    [heap_start |-> fixed.heap_start, heap_size |-> fixed.heap_size,
     used_memory |-> fixed.used_memory, free_list |-> fixed.free_list,
     next |-> node_next]

\* get_block_size_index: position of the first class >= size (the callers
\* never pass a size above MAX_BLOCK_SIZE, where the source panics).
get_block_size_index(size) ==
    CHOOSE i \in 0..(NumClasses - 1) :
        /\ BLOCK_SIZES(i) >= size
        /\ \A j \in 0..(i - 1) : BLOCK_SIZES(j) < size

\* round_up
round_up(size) == BLOCK_SIZES(get_block_size_index(size))

\* Mutant: the block is linked in but the list head is left as it was.
add_block_HeadKept(s, node_ptr, size) ==
    LET idx == get_block_size_index(size)
    IN [s EXCEPT !.next = [x \in DOMAIN s.next \cup {node_ptr} |->
                             IF x = node_ptr THEN s.free_list[idx] ELSE s.next[x]]]

\* add_block: push node_ptr on the free list of size's class.
add_block(s, node_ptr, size) ==
    LET idx == get_block_size_index(size)
    IN [s EXCEPT !.free_list[idx] = node_ptr,
                 !.next = [x \in DOMAIN s.next \cup {node_ptr} |->
                             IF x = node_ptr THEN s.free_list[idx] ELSE s.next[x]]]

\* remove_block: the head of free_list[idx] (NULL for None) ...
remove_block_node(s, idx) == s.free_list[idx]

\* Mutant: the head is handed out but stays on the list.
remove_block_NoPop(s, idx) == s

\* ... and the allocator after popping it.
remove_block(s, idx) ==
    IF s.free_list[idx] = NULL THEN s
    ELSE [s EXCEPT !.free_list[idx] = s.next[s.free_list[idx]]]

\* Mutant: the second half is taken one half too far.
split_block_FarHalf(s, idx) ==
    LET size == BLOCK_SIZES(idx - 1)
        node == remove_block_node(s, idx)
        s1 == remove_block(s, idx)
        other_node == node + 2 * size
    IN add_block(add_block(s1, node, size), other_node, size)

\* split_block: called with idx > 0 and free_list[idx] non-empty.
split_block(s, idx) ==
    LET size == BLOCK_SIZES(idx - 1)
        node == remove_block_node(s, idx)
        s1 == remove_block(s, idx)
        other_node == node + size
    IN add_block(add_block(s1, node, size), other_node, size)

\* find_index_of_larger_block: first non-empty list at or after start_index.
find_index_of_larger_block(s, start_index) ==
    LET found == {i \in start_index..(NumClasses - 1) : s.free_list[i] # NULL}
    IN IF found = {} THEN NONE
       ELSE CHOOSE i \in found : \A j \in found : i <= j

\* _alloc: for i in 0..larger_block_idx - idx { split_block(larger_block_idx - i) }
RECURSIVE split_loop(_, _, _)
split_loop(s, from, idx) ==
    IF from > idx THEN split_loop(split_block(s, from), from - 1, idx) ELSE s

\* create_block: largest class that fits the gap
pad_size(gap) ==
    LET fit == {i \in 0..(NumClasses - 1) : BLOCK_SIZES(i) <= gap}
    IN BLOCK_SIZES(CHOOSE i \in fit : \A j \in fit : j <= i)

\* Mutant: the padding is counted as used and pushed on no free list.
RECURSIVE pad_loop_Waste(_, _, _)
pad_loop_Waste(s, current_addr, block_addr) ==
    IF block_addr - current_addr >= MIN_BLOCK_SIZE
    THEN LET p == pad_size(block_addr - current_addr)
         IN pad_loop_Waste([s EXCEPT !.used_memory = s.used_memory + p],
                           current_addr + p, block_addr)
    ELSE [s |-> s, current_addr |-> current_addr]

\* create_block: the padding loop; the result also carries current_addr.
RECURSIVE pad_loop(_, _, _)
pad_loop(s, current_addr, block_addr) ==
    IF block_addr - current_addr >= MIN_BLOCK_SIZE
    THEN LET p == pad_size(block_addr - current_addr)
             s1 == add_block(s, current_addr, p)
         IN pad_loop([s1 EXCEPT !.used_memory = s1.used_memory + p],
                     current_addr + p, block_addr)
    ELSE [s |-> s, current_addr |-> current_addr]

\* Mutant: a block that ends exactly at heap_size is refused (">=" for ">").
create_block_Strict(s, size, align) ==
    LET current_addr == s.heap_start + s.used_memory
        block_addr == align_up(current_addr, align)
        padded == pad_loop(s, current_addr, block_addr)
        s1 == [padded.s EXCEPT !.used_memory =
                   padded.s.used_memory + (block_addr - padded.current_addr)]
        block_size == round_up(size)
    IN IF s1.used_memory + block_size >= s1.heap_size
       THEN [s |-> s1, ptr |-> NULL]
       ELSE [s |-> [s1 EXCEPT !.used_memory = s1.used_memory + block_size],
             ptr |-> block_addr]

\* create_block: the allocator afterwards and the block (NULL for None).
create_block(s, size, align) ==
    LET current_addr == s.heap_start + s.used_memory
        block_addr == align_up(current_addr, align)
        padded == pad_loop(s, current_addr, block_addr)
        s1 == [padded.s EXCEPT !.used_memory =
                   padded.s.used_memory + (block_addr - padded.current_addr)]
        block_size == round_up(size)
    IN IF s1.used_memory + block_size > s1.heap_size
       THEN [s |-> s1, ptr |-> NULL]
       ELSE [s |-> [s1 EXCEPT !.used_memory = s1.used_memory + block_size],
             ptr |-> block_addr]

\* _alloc_huge: the loop creating the blocks after the first one.
RECURSIVE huge_loop(_, _)
huge_loop(s, n) ==
    IF n = 0 THEN [s |-> s, ptr |-> s.heap_start]
    ELSE LET r == create_block(s, MAX_BLOCK_SIZE, MAX_BLOCK_SIZE)
         IN IF r.ptr = NULL THEN r ELSE huge_loop(r.s, n - 1)

\* Mutant: the number of blocks is the rounded-up quotient.
blocks_needed_Ceil(size) == (size + MAX_BLOCK_SIZE - 1) \div MAX_BLOCK_SIZE

\* let blocks_needed = size / MAX_BLOCK_SIZE + 1
blocks_needed(size) == size \div MAX_BLOCK_SIZE + 1

\* Mutant: a failed huge allocation restores the allocator.
alloc_huge_Rollback(s, size) ==
    LET first == create_block(s, MAX_BLOCK_SIZE, MAX_BLOCK_SIZE)
    IN IF first.ptr = NULL THEN [s |-> s, ptr |-> NULL]
       ELSE LET rest == huge_loop(first.s, blocks_needed(size) - 1)
            IN IF rest.ptr = NULL THEN [s |-> s, ptr |-> NULL]
               ELSE [s |-> rest.s, ptr |-> first.ptr]

\* _alloc_huge
alloc_huge(s, size) ==
    LET first == create_block(s, MAX_BLOCK_SIZE, MAX_BLOCK_SIZE)
    IN IF first.ptr = NULL THEN first
       ELSE LET rest == huge_loop(first.s, blocks_needed(size) - 1)
            IN IF rest.ptr = NULL THEN rest
               ELSE [s |-> rest.s, ptr |-> first.ptr]

\* Mutant: a free block of the class is not looked for; a block is carved.
alloc_normal_AlwaysCarve(s, size, align) == create_block(s, size, align)

\* _alloc, size <= MAX_BLOCK_SIZE
alloc_normal(s, size, align) ==
    LET idx == get_block_size_index(size)
    IN IF remove_block_node(s, idx) # NULL
       THEN [s |-> remove_block(s, idx), ptr |-> remove_block_node(s, idx)]
       ELSE LET larger_block_idx == find_index_of_larger_block(s, idx + 1)
            IN IF larger_block_idx # NONE
               THEN LET s1 == split_loop(s, larger_block_idx, idx)
                    IN [s |-> remove_block(s1, idx),
                        ptr |-> remove_block_node(s1, idx)]
               ELSE create_block(s, size, align)

\* Mutant: a huge request is served from the max-class free list when that
\* list is not empty.
fixed_alloc_HugeFromList(s, size, align) ==
    IF size > MAX_BLOCK_SIZE
    THEN IF remove_block_node(s, NumClasses - 1) # NULL
         THEN [s |-> remove_block(s, NumClasses - 1),
               ptr |-> remove_block_node(s, NumClasses - 1)]
         ELSE alloc_huge(s, size)
    ELSE alloc_normal(s, size, align)

\* _alloc
fixed_alloc(s, size, align) ==
    IF size > MAX_BLOCK_SIZE THEN alloc_huge(s, size)
    ELSE alloc_normal(s, size, align)

\* _dealloc_huge: for i in 0..no_of_blocks { add_block(ptr + MAX_BLOCK_SIZE * i) }
RECURSIVE dealloc_huge_loop(_, _, _, _)
dealloc_huge_loop(s, ptr, i, no_of_blocks) ==
    IF i < no_of_blocks
    THEN dealloc_huge_loop(add_block(s, ptr + MAX_BLOCK_SIZE * i, MAX_BLOCK_SIZE),
                           ptr, i + 1, no_of_blocks)
    ELSE s

\* Mutant: the block given back is not pushed on any free list.
fixed_dealloc_Forget(s, ptr, size) == s

\* _dealloc
fixed_dealloc(s, ptr, size) ==
    IF size > MAX_BLOCK_SIZE
    THEN dealloc_huge_loop(s, ptr, 0, size \div MAX_BLOCK_SIZE + 1)
    ELSE add_block(s, ptr, size)

FixedFields(s) ==
    [heap_start |-> s.heap_start, heap_size |-> s.heap_size,
     used_memory |-> s.used_memory, free_list |-> s.free_list]

FixedInitCall(heap_start, heap_size) ==
    /\ phase = "new"
    /\ phase' = "ready"
    /\ fixed' = [fixed EXCEPT !.heap_start = heap_start, !.heap_size = heap_size]
    /\ last' = Call("init", heap_size, 1, heap_start, NULL, NULL)
    /\ UNCHANGED <<bump, buddy, mem, node_next, live, nOps>>

FixedInit(heap_start, heap_size) ==
    FixedInitCall(heap_start, heap_size) /\ UNCHANGED <<cpu, disk, kbd, fs, exec, shell>>

FixedAllocCall(size, align) ==
    /\ phase = "ready"
    /\ nOps' = nOps + 1
    /\ LET r == fixed_alloc(FixedSelf, size, align)
       IN /\ fixed' = FixedFields(r.s)
          /\ node_next' = r.s.next
          /\ live' = Took(size, align, r.ptr, r.ptr)
          /\ last' = Call("alloc", size, align, r.ptr, r.ptr, NULL)
    /\ UNCHANGED <<phase, bump, buddy, mem>>

FixedAlloc(size, align) ==
    /\ Len(live) < FixedMaxLive
    /\ nOps < FixedMaxOps
    /\ FixedAllocCall(size, align)
    /\ UNCHANGED <<cpu, disk, kbd, fs, exec, shell>>

FixedDeallocCall(i) ==
    /\ phase = "ready"
    /\ i \in 1..Len(live)
    /\ nOps' = nOps + 1
    /\ LET s == fixed_dealloc(FixedSelf, live[i].ptr, live[i].size)
       IN /\ fixed' = FixedFields(s)
          /\ node_next' = s.next
    /\ live' = Gave(i)
    /\ last' = Call("dealloc", live[i].size, live[i].align, live[i].ptr,
                    live[i].blk, live[i].ptr)
    /\ UNCHANGED <<phase, bump, buddy, mem>>

FixedDealloc(i) ==
    /\ nOps < FixedMaxOps
    /\ FixedDeallocCall(i)
    /\ UNCHANGED <<cpu, disk, kbd, fs, exec, shell>>

\* ------------------------------------------- FixedSizeAllocator claims

\* The addresses on a free list, head first, following ListNode.next.
RECURSIVE ListFrom(_, _)
ListFrom(p, fuel) ==
    IF p = NULL \/ fuel = 0 \/ p \notin DOMAIN node_next THEN <<>>
    ELSE <<p>> \o ListFrom(node_next[p], fuel - 1)

FreeSeq(idx) == ListFrom(fixed.free_list[idx], Cardinality(DOMAIN node_next) + 1)

\* Every free-list entry: class, position in its list, address, byte size.
FreeBlocks ==
    UNION {{[idx |-> idx, pos |-> k, ptr |-> FreeSeq(idx)[k], size |-> BLOCK_SIZES(idx)] :
              k \in 1..Len(FreeSeq(idx))} : idx \in 0..(NumClasses - 1)}

\* C1 (as claimed): every pointer the fixed-size allocator has returned is a
\* multiple of the alignment it was asked for.
C1_FixedAligned ==
    \A i \in 1..Len(live) : live[i].ptr % live[i].align = 0

\* C4: no live address is on a free list, no address is on the free lists
\* twice, and no free-list block overlaps a live allocation or another
\* free-list block.
C4_FixedFreeListsDisjoint ==
    /\ \A f \in FreeBlocks : \A i \in 1..Len(live) :
          /\ f.ptr # live[i].ptr
          /\ RangesDisjoint(f, live[i])
    /\ \A f, g \in FreeBlocks :
          (f.idx # g.idx \/ f.pos # g.pos) => (f.ptr # g.ptr /\ RangesDisjoint(f, g))

\* Two allocations are live while blocks made by a split and by a dealloc
\* sit on two different free lists.
C4_Witness ==
    /\ Len(live) = 2
    /\ \E i, j \in 0..(NumClasses - 1) :
          /\ i # j
          /\ Len(FreeSeq(i)) >= 1
          /\ Len(FreeSeq(j)) >= 2
    /\ last.op = "dealloc"

\* C7: a dealloc of a block of at most 2048 bytes leaves used_memory alone,
\* and an alloc of any size of the same class that follows it immediately
\* returns the address just freed, again without changing used_memory.
C7_FixedReuseSameClass ==
    [][ /\ (last'.op = "dealloc" /\ nOps' # nOps)
            => fixed'.used_memory = fixed.used_memory
        /\ (last.op = "dealloc" /\ last.size <= MAX_BLOCK_SIZE
              /\ last'.op = "alloc" /\ nOps' # nOps
              /\ last'.size <= MAX_BLOCK_SIZE
              /\ get_block_size_index(last'.size) = get_block_size_index(last.size))
            => /\ last'.ptr = last.ptr
               /\ fixed'.used_memory = fixed.used_memory ]_vars

\* alloc, dealloc, then alloc(5) of the same 8-byte class: the block at
\* heap_start is handed out again and used_memory is still 8.
C7_Witness ==
    /\ fixed.heap_size = 8192
    /\ nOps = 3
    /\ Len(live) = 1
    /\ last.op = "alloc" /\ last.size = 5
    /\ last.ptr = fixed.heap_start
    /\ fixed.used_memory = 8

IsSuffix(t, u) ==
    /\ Len(t) <= Len(u)
    /\ \A k \in 1..Len(t) : t[k] = u[Len(u) - Len(t) + k]

\* The free lists in the state where next is nx and the heads are fl.
RECURSIVE ListIn(_, _, _)
ListIn(nx, p, fuel) ==
    IF p = NULL \/ fuel = 0 \/ p \notin DOMAIN nx THEN <<>>
    ELSE <<p>> \o ListIn(nx, nx[p], fuel - 1)

\* C8 (as claimed): a successful alloc of size > 2048 carves exactly
\* ceil(size / 2048) contiguous 2048-byte blocks: used_memory grows by that
\* many blocks plus the alignment padding, nothing is popped from a free
\* list, and the first carved block is returned.
C8_FixedHugeCarvesCeil ==
    [][ (last'.op = "alloc" /\ nOps' # nOps /\ last'.size > MAX_BLOCK_SIZE
           /\ last'.ptr # NULL) =>
          LET n == (last'.size + MAX_BLOCK_SIZE - 1) \div MAX_BLOCK_SIZE
              cur == fixed.heap_start + fixed.used_memory
              first == align_up(cur, MAX_BLOCK_SIZE)
          IN /\ last'.ptr = first
             /\ fixed'.used_memory =
                  fixed.used_memory + (first - cur) + n * MAX_BLOCK_SIZE
             /\ \A idx \in 0..(NumClasses - 1) :
                  IsSuffix(FreeSeq(idx),
                           ListIn(node_next', fixed'.free_list[idx],
                                  Cardinality(DOMAIN node_next') + 1)) ]_vars

\* The free list of class idx after the step.
FreeSeqNext(idx) ==
    ListIn(node_next', fixed'.free_list[idx], Cardinality(DOMAIN node_next') + 1)

SeqElems(t) == {t[k] : k \in 1..Len(t)}

\* C11 (as claimed): an alloc that returns null leaves used_memory and every
\* free list as they were.
C11_FixedNullLeavesState ==
    [][ (last'.op = "alloc" /\ nOps' # nOps /\ last'.ptr = NULL) =>
          /\ fixed'.used_memory = fixed.used_memory
          /\ \A idx \in 0..(NumClasses - 1) : FreeSeqNext(idx) = FreeSeq(idx) ]_vars

\* The blocks dealloc pushed for the huge allocation the call c gave back.
HugeBlocks(c) == {c.ptr + MAX_BLOCK_SIZE * i : i \in 0..(blocks_needed(c.size) - 1)}

\* C12 (as claimed): a huge alloc that follows the dealloc of a huge
\* allocation of the same size reuses the freed blocks instead of consuming
\* fresh heap.
C12_FixedHugeReusesFreed ==
    [][ (/\ last.op = "dealloc" /\ last.size > MAX_BLOCK_SIZE
         /\ last'.op = "alloc" /\ nOps' # nOps
         /\ last'.size = last.size /\ last'.ptr # NULL)
        => /\ last'.ptr \in HugeBlocks(last)
           /\ fixed'.used_memory = fixed.used_memory ]_vars

\* C12 (amended): a huge alloc that follows the dealloc of a huge allocation
\* of the same size and succeeds does not reuse the freed blocks: it returns
\* the bump mark aligned up to 2048, at or above the end of the freed
\* allocation, used_memory grows by (size / 2048 + 1) blocks plus padding,
\* and the freed blocks stay on free_list[8].
C12_FixedHugeCarvesFresh ==
    [][ (/\ last.op = "dealloc" /\ last.size > MAX_BLOCK_SIZE
         /\ last'.op = "alloc" /\ nOps' # nOps
         /\ last'.size = last.size /\ last'.ptr # NULL)
        => LET cur == fixed.heap_start + fixed.used_memory
           IN /\ last'.ptr = align_up(cur, MAX_BLOCK_SIZE)
              /\ last'.ptr >= last.ptr + blocks_needed(last.size) * MAX_BLOCK_SIZE
              /\ fixed'.used_memory = fixed.used_memory + (last'.ptr - cur)
                    + blocks_needed(last.size) * MAX_BLOCK_SIZE
              /\ HugeBlocks(last) \subseteq SeqElems(FreeSeqNext(NumClasses - 1)) ]_vars

\* alloc(3000), dealloc, alloc(3000) on the 8192-byte heap: the second
\* allocation sits behind the two freed blocks, which are on free_list[8].
C12_Witness ==
    /\ fixed.heap_size = 8192
    /\ nOps = 3 /\ Len(live) = 1
    /\ last.op = "alloc" /\ last.size = 3000
    /\ last.ptr = fixed.heap_start + 2 * MAX_BLOCK_SIZE
    /\ FreeSeq(NumClasses - 1) = <<fixed.heap_start + MAX_BLOCK_SIZE, fixed.heap_start>>

\* C20 (as claimed): every block on free_list[i], and every live block of
\* class i, starts at a multiple of BLOCK_SIZES[i] (heap_start is a multiple
\* of 2048).
C20_FixedBlocksClassAligned ==
    /\ \A f \in FreeBlocks : f.ptr % f.size = 0
    /\ \A i \in 1..Len(live) :
          live[i].size <= MAX_BLOCK_SIZE => live[i].ptr % round_up(live[i].size) = 0

\* The bytes the allocator set aside for an allocation of the given size:
\* its class block, or size / 2048 + 1 max-class blocks.
LiveSize(size) ==
    IF size > MAX_BLOCK_SIZE THEN blocks_needed(size) * MAX_BLOCK_SIZE
    ELSE round_up(size)

FixedHeapEnd == fixed.heap_start + fixed.heap_size

\* C26 (as claimed): used_memory <= heap_size, and every block on a free
\* list or held by a live allocation lies inside the heap, padding blocks of
\* failed allocs included.
C26_FixedInsideHeap ==
    phase = "ready" =>
        /\ fixed.used_memory <= fixed.heap_size
        /\ \A f \in FreeBlocks :
              fixed.heap_start <= f.ptr /\ f.ptr + f.size <= FixedHeapEnd
        /\ \A i \in 1..Len(live) :
              /\ fixed.heap_start <= live[i].ptr
              /\ live[i].ptr + LiveSize(live[i].size) <= FixedHeapEnd

\* The step is an alloc on the huge path that returns null.
HugeAllocFails ==
    /\ phase = "ready"
    /\ last'.op = "alloc" /\ nOps' # nOps
    /\ last'.size > MAX_BLOCK_SIZE /\ last'.ptr = NULL

\* Where the huge path carves its first block, as an offset from heap_start.
HugeOffset == align_up(fixed.heap_start + fixed.used_memory, MAX_BLOCK_SIZE)
                  - fixed.heap_start

\* The number of max-class blocks that fit behind HugeOffset.
HugeFit ==
    IF HugeOffset + MAX_BLOCK_SIZE > fixed.heap_size THEN 0
    ELSE (fixed.heap_size - HugeOffset) \div MAX_BLOCK_SIZE

Overlaps(a, asize, b, bsize) == a < b + bsize /\ b < a + asize

\* The 2048 bytes at a count as used and belong to no free block and to no
\* live allocation, in the state given by its free blocks, live list and mark.
Lost(a, frees, lives, used) ==
    /\ a + MAX_BLOCK_SIZE <= fixed.heap_start + used
    /\ \A f \in frees : ~Overlaps(a, MAX_BLOCK_SIZE, f.ptr, f.size)
    /\ \A i \in 1..Len(lives) :
          ~Overlaps(a, MAX_BLOCK_SIZE, lives[i].ptr, LiveSize(lives[i].size))

\* Every free-list entry after the step.
FreeBlocksNext ==
    UNION {{[idx |-> idx, pos |-> k, ptr |-> FreeSeqNext(idx)[k], size |-> BLOCK_SIZES(idx)] :
              k \in 1..Len(FreeSeqNext(idx))} : idx \in 0..(NumClasses - 1)}

MaxBlockAddrs ==
    {fixed.heap_start + k * MAX_BLOCK_SIZE :
        k \in 0..(fixed'.used_memory \div MAX_BLOCK_SIZE)}

\* C27: a huge alloc that fails after carving K - 1 blocks returns null and
\* rolls nothing back: used_memory stays raised by the padding and the K - 1
\* blocks, which are on no free list and part of no allocation; and 2048
\* bytes lost in this way stay lost in every later state.
C27_FixedHugeNoRollback ==
    [][ /\ HugeAllocFails =>
             /\ HugeFit < blocks_needed(last'.size)
             /\ fixed'.used_memory = HugeOffset + HugeFit * MAX_BLOCK_SIZE
             /\ live' = live
             /\ \A k \in 0..(HugeFit - 1) :
                   Lost(fixed.heap_start + HugeOffset + k * MAX_BLOCK_SIZE,
                        FreeBlocksNext, live', fixed'.used_memory)
             /\ \A f \in FreeBlocksNext :
                   \/ \E g \in FreeBlocks : g.ptr = f.ptr /\ g.size = f.size
                   \/ /\ fixed.heap_start + fixed.used_memory <= f.ptr
                      /\ f.ptr + f.size <= fixed.heap_start + HugeOffset
        /\ phase = "ready" =>
             \A a \in MaxBlockAddrs :
                 Lost(a, FreeBlocks, live, fixed.used_memory)
                     => Lost(a, FreeBlocksNext, live', fixed'.used_memory) ]_vars

\* A huge alloc has just failed on the 8192-byte heap after carving its
\* first block: the heap is used up and its last 2048 bytes are lost.
C27_Witness ==
    /\ phase = "ready" /\ fixed.heap_size = 4 * MAX_BLOCK_SIZE
    /\ last.op = "alloc" /\ last.size > MAX_BLOCK_SIZE /\ last.ptr = NULL
    /\ fixed.used_memory = fixed.heap_size
    /\ Lost(fixed.heap_start + 3 * MAX_BLOCK_SIZE, FreeBlocks, live,
            fixed.used_memory)
    /\ Len(live) >= 1

\* The smallest class above idx with a free block, NONE if there is none.
LargerClass(idx) ==
    LET found == {c \in (idx + 1)..(NumClasses - 1) : FreeSeq(c) # <<>>}
    IN IF found = {} THEN NONE ELSE CHOOSE c \in found : \A d \in found : c <= d

RECURSIVE SumSizes(_)
SumSizes(S) ==
    IF S = {} THEN 0
    ELSE LET x == CHOOSE x \in S : TRUE IN x.size + SumSizes(S \ {x})

\* The pieces tile [base, base + size): inside, pairwise disjoint, and of
\* the same total size.
TilesBlock(pieces, base, size) ==
    /\ \A x \in pieces : base <= x.ptr /\ x.ptr + x.size <= base + size
    /\ \A x \in pieces : \A y \in pieces \ {x} :
          ~Overlaps(x.ptr, x.size, y.ptr, y.size)
    /\ SumSizes(pieces) = size

\* C28: normal path, free_list[idx] empty and j the smallest larger class
\* with a free block: alloc takes one block B off free_list[j], leaves one
\* new block on each of free_list[idx .. j-1] and every other list as it
\* was, returns a class-idx block, the returned block and the new blocks
\* tile B, and used_memory is unchanged.
C28_FixedSplitTiles ==
    [][ (/\ phase = "ready"
         /\ last'.op = "alloc" /\ nOps' # nOps
         /\ last'.size <= MAX_BLOCK_SIZE
         /\ FreeSeq(get_block_size_index(last'.size)) = <<>>
         /\ LargerClass(get_block_size_index(last'.size)) # NONE)
        => LET idx == get_block_size_index(last'.size)
               j == LargerClass(idx)
               B == FreeSeq(j)[1]
               pieces == {[c |-> -1, ptr |-> last'.ptr, size |-> BLOCK_SIZES(idx)]}
                         \cup {[c |-> c, ptr |-> FreeSeqNext(c)[1],
                                size |-> BLOCK_SIZES(c)] : c \in idx..(j - 1)}
           IN /\ last'.ptr # NULL
              /\ FreeSeqNext(j) = Tail(FreeSeq(j))
              /\ \A c \in idx..(j - 1) : Len(FreeSeqNext(c)) = 1
              /\ \A c \in 0..(NumClasses - 1) :
                    (c < idx \/ c > j) => FreeSeqNext(c) = FreeSeq(c)
              /\ TilesBlock(pieces, B, BLOCK_SIZES(j))
              /\ fixed'.used_memory = fixed.used_memory ]_vars

\* alloc(3000), dealloc, then an alloc of the 8-byte class: the 2048-byte
\* block at heap_start + 2048 was split eight times and its last 8 bytes
\* returned.
C28_Witness ==
    /\ phase = "ready" /\ nOps = 3
    /\ last.op = "alloc" /\ last.size <= MIN_BLOCK_SIZE
    /\ last.ptr = fixed.heap_start + 2 * MAX_BLOCK_SIZE - MIN_BLOCK_SIZE
    /\ \A c \in 0..(NumClasses - 1) : Len(FreeSeq(c)) = 1
    /\ fixed.used_memory = 2 * MAX_BLOCK_SIZE

\* Every byte of [heap_start, heap_start + used) is in exactly one block, a
\* free-list block or the block of a live allocation.
Tiled(frees, lives, used) ==
    LET held == {[i |-> i, ptr |-> lives[i].ptr, size |-> LiveSize(lives[i].size)] :
                    i \in 1..Len(lives)}
        free == {[i |-> <<f.idx, f.pos>>, ptr |-> f.ptr, size |-> f.size] : f \in frees}
    IN TilesBlock(held \cup free, fixed.heap_start, used)

\* The padding blocks create_block is said to cut from [a, e): the largest
\* class that fits first.
RECURSIVE Greedy(_, _)
Greedy(a, e) ==
    IF e - a < MIN_BLOCK_SIZE THEN {}
    ELSE LET fit == {BLOCK_SIZES(c) : c \in 0..(NumClasses - 1)}
                        \cap 1..(e - a)
             p == CHOOSE x \in fit : \A y \in fit : y <= x
         IN {[ptr |-> a, size |-> p]} \cup Greedy(a + p, e)

\* C29: unless a huge alloc fails part-way, the blocks on the free lists
\* and the blocks of the live allocations keep tiling [heap_start,
\* heap_start + used_memory) exactly; and an alloc that moves the mark cuts
\* the gap below the aligned carve address, largest fitting class first,
\* into blocks that it pushes on the free lists.
C29_FixedPaddingNotWasted ==
    [][ /\ (phase = "new" /\ phase' = "ready") =>
                Tiled(FreeBlocksNext, live', fixed'.used_memory)
        /\ (/\ phase = "ready"
            /\ Tiled(FreeBlocks, live, fixed.used_memory)
            /\ ~(HugeAllocFails /\ HugeFit >= 1))
           => Tiled(FreeBlocksNext, live', fixed'.used_memory)
        /\ (/\ phase = "ready"
            /\ last'.op = "alloc" /\ nOps' # nOps
            /\ fixed'.used_memory # fixed.used_memory)
           => LET cur == fixed.heap_start + fixed.used_memory
                  to == IF last'.size > MAX_BLOCK_SIZE THEN MAX_BLOCK_SIZE
                        ELSE last'.align
                  had == {[ptr |-> f.ptr, size |-> f.size] : f \in FreeBlocks}
                  has == {[ptr |-> f.ptr, size |-> f.size] : f \in FreeBlocksNext}
              IN has \ had = Greedy(cur, align_up(cur, to)) ]_vars

\* alloc(8, 8) then alloc(3000, 8) on the 8192-byte heap: the 2040 bytes
\* below the huge allocation are on the free lists as eight padding blocks.
C29_Witness ==
    /\ phase = "ready" /\ fixed.heap_size = 4 * MAX_BLOCK_SIZE
    /\ Len(live) = 2 /\ nOps = 2
    /\ last.op = "alloc" /\ last.ptr = fixed.heap_start + MAX_BLOCK_SIZE
    /\ Cardinality(FreeBlocks) = NumClasses - 1
    /\ fixed.used_memory = 3 * MAX_BLOCK_SIZE
    /\ Tiled(FreeBlocks, live, fixed.used_memory)

\* ======================================================== the core

Flows == {"task", "irq"}

\* No call in progress, the lock free, interrupts never masked.
CpuNew ==
    [masked |-> FALSE, lock |-> "none",
     pc |-> [f \in Flows |-> "idle"],
     req |-> [f \in Flows |-> NoCall]]

\* ================================================ the global allocator

\* The strategy installed as #[global_allocator]: the one init() was called on.
Installed ==
    IF bump.heap_end # 0 THEN "bump"
    ELSE IF buddy.heap_start # 0 THEN "buddy"
    ELSE IF fixed.heap_size # 0 THEN "fixed"
    ELSE "none"

\* GlobalAlloc::alloc of the installed strategy.
GlobalAllocCall(size, align) ==
    \/ Installed = "bump" /\ BumpAllocCall(size, align)
    \/ Installed = "buddy" /\ BuddyAllocCall(size, align)
    \/ Installed = "fixed" /\ FixedAllocCall(size, align)

\* GlobalAlloc::dealloc of the installed strategy.
GlobalDeallocCall(i) ==
    \/ Installed = "bump" /\ BumpDeallocCall(i)
    \/ Installed = "buddy" /\ BuddyDeallocCall(i)
    \/ Installed = "fixed" /\ FixedDeallocCall(i)

\* ================= tests/heap_allocation.rs: test_reuse_allocations(_long_lived)

CycleHeapStarts == {4096}
CycleHeapSizes == {8, 16, 32}

\* Box<i32>, the long-lived box, and Box<usize>, the box of the loop.
LongLivedLayout == <<4, 4>>
CycleLayout == <<8, 8>>

IsLongLived(a) == a.size = LongLivedLayout[1] /\ a.align = LongLivedLayout[2]
IsCycleBox(a) == a.size = CycleLayout[1] /\ a.align = CycleLayout[2]

\* The long-lived box is live.
LongLived == \E i \in 1..Len(live) : IsLongLived(live[i])
LongLivedPtr == live[CHOOSE i \in 1..Len(live) : IsLongLived(live[i])].ptr

\* Box::new panics (handle_alloc_error) when alloc returns null.
Panicked == last.op = "alloc" /\ last.ptr = NULL

CycleLayouts == {LongLivedLayout, CycleLayout}

\* Box::new: let long_lived = Box::new(1) before the loop, let x = Box::new(i)
\* in the loop while the x of the iteration before has been dropped.
CycleAlloc(l) ==
    /\ nOps < CycleMaxOps
    /\ ~Panicked
    /\ IF l = LongLivedLayout THEN nOps = 0
       ELSE \A i \in 1..Len(live) : ~IsCycleBox(live[i])
    /\ GlobalAllocCall(l[1], l[2])
    /\ UNCHANGED <<cpu, disk, kbd, fs, exec, shell>>

\* x dropped at the end of the loop body
CycleDealloc ==
    /\ nOps < CycleMaxOps
    /\ \E i \in 1..Len(live) : IsCycleBox(live[i]) /\ GlobalDeallocCall(i)
    /\ UNCHANGED <<cpu, disk, kbd, fs, exec, shell>>

\* C17 (as claimed): whichever strategy is installed, with no other
\* allocation live, no alloc of the allocate-8-bytes/deallocate loop returns
\* null, however often the loop runs.
C17_CycleNeverNull ==
    (/\ phase = "ready" /\ ~LongLived
     /\ last.op = "alloc" /\ IsCycleBox(last))
    => last.ptr # NULL

\* C18: fixed-size allocator, the long-lived box live and the heap holding
\* two 8-byte blocks: every alloc of the loop returns a block, never the
\* long-lived box's address, and from the second cycle on no call changes
\* used_memory.
C18_FixedCycleLongLived ==
    [][ (/\ Installed = "fixed" /\ LongLived
         /\ fixed.heap_size >= 2 * MIN_BLOCK_SIZE
         /\ nOps' # nOps)
        => /\ (last'.op = "alloc" =>
                 /\ last'.ptr # NULL
                 /\ last'.ptr # LongLivedPtr
                 /\ RangesDisjoint(last', [ptr |-> LongLivedPtr,
                                           size |-> LongLivedLayout[1]]))
           /\ (nOps >= 3 => fixed'.used_memory = fixed.used_memory) ]_vars

\* The loop has run more often than the 16-byte heap has bytes, the
\* long-lived box still live, and its last alloc returned a block.
C18_Witness ==
    /\ Installed = "fixed" /\ LongLived
    /\ fixed.heap_size = 2 * MIN_BLOCK_SIZE
    /\ nOps > 2 * fixed.heap_size + 1
    /\ last.op = "alloc" /\ IsCycleBox(last) /\ last.ptr # NULL
    /\ fixed.used_memory = 2 * MIN_BLOCK_SIZE

\* ======================================== zero-sized requests, small heaps

ZeroHeapStarts == {4096}
ZeroHeapSizes == {16, 24}
ZeroLayouts == {<<0, 8>>, <<0, 16>>, <<8, 8>>}

ZeroAlloc(size, align) ==
    /\ Len(live) < ZeroMaxLive
    /\ nOps < ZeroMaxOps
    /\ GlobalAllocCall(size, align)
    /\ UNCHANGED <<cpu, disk, kbd, fs, exec, shell>>

ZeroDealloc(i) ==
    /\ nOps < ZeroMaxOps
    /\ GlobalDeallocCall(i)
    /\ UNCHANGED <<cpu, disk, kbd, fs, exec, shell>>

\* Some block of the buddy heap is free.
SomeBlockFree == \E h \in Headers(mem) : BlockIsFree(mem, h)

\* The step is an alloc of size 0.
ZeroSizedAlloc == phase = "ready" /\ last'.op = "alloc" /\ nOps' # nOps /\ last'.size = 0

\* C19 (as claimed): alloc of size 0 returns a block when the heap is not
\* exhausted: bump when the aligned cursor is <= heap_end, buddy when some
\* block is free, fixed when a free-list block exists or 8 more bytes fit
\* below heap_size.
C19_ZeroSizeNonNull ==
    [][ ZeroSizedAlloc =>
          /\ (Installed = "bump" /\ align_up(bump.next, last'.align) <= bump.heap_end)
                => last'.ptr # NULL
          /\ (Installed = "buddy" /\ SomeBlockFree) => last'.ptr # NULL
          /\ (Installed = "fixed"
                /\ (FreeBlocks # {}
                    \/ fixed.used_memory + MIN_BLOCK_SIZE <= fixed.heap_size))
                => last'.ptr # NULL ]_vars

\* Where create_block would put a block of the given alignment, as an
\* offset from heap_start.
CarveOffset(align) ==
    align_up(fixed.heap_start + fixed.used_memory, align) - fixed.heap_start

\* C19 (amended): alloc of size 0 returns a block exactly when: bump, the
\* aligned cursor is <= heap_end; buddy, some block is free (an order-0 block
\* is handed out); fixed, a free-list block exists or 8 bytes fit below
\* heap_size behind the bump mark aligned up to the requested alignment (an
\* 8-byte-class block is handed out).
C19_ZeroSizeNonNullAligned ==
    [][ ZeroSizedAlloc =>
          /\ Installed = "bump" =>
                (last'.ptr # NULL <=> align_up(bump.next, last'.align) <= bump.heap_end)
          /\ Installed = "buddy" =>
                /\ last'.ptr # NULL <=> SomeBlockFree
                /\ last'.ptr # NULL => BlockOrder(mem', last'.blk) = 0
          /\ Installed = "fixed" =>
                /\ last'.ptr # NULL <=>
                      \/ FreeBlocks # {}
                      \/ CarveOffset(last'.align) + MIN_BLOCK_SIZE <= fixed.heap_size
                /\ (last'.ptr # NULL /\ FreeBlocks = {}) =>
                      fixed'.used_memory = CarveOffset(last'.align) + MIN_BLOCK_SIZE ]_vars

\* The fixed-size allocator carved the last 8 bytes of the heap for a
\* request of size 0.
C19_Witness ==
    /\ Installed = "fixed"
    /\ last.op = "alloc" /\ last.size = 0 /\ last.ptr # NULL
    /\ last.ptr + MIN_BLOCK_SIZE = fixed.heap_start + fixed.heap_size
    /\ fixed.used_memory = fixed.heap_size
    /\ FreeBlocks = {}

\* ======================== Locked<A>: alloc and dealloc as the core runs them

LockHeapStarts == {4096}
LockHeapSizes == {16}
LockLayouts == {<<8, 8>>}

Other(f) == IF f = "task" THEN "irq" ELSE "task"

\* Whether the GlobalAlloc method calls self.lock() before it touches the
\* allocator: all of them do but dealloc of Locked<BuddyAllocator>.
TakesLock(kind, op) == ~(kind = "buddy" /\ op = "dealloc")

\* spin::Mutex::lock, once the lock is free
Lock(c, f) == [c EXCEPT !.lock = f]

\* Mutant: the guard is leaked, the lock stays held.
Unlock_Keep(c) == c

\* drop of the MutexGuard at the end of the method
Unlock(c) == [c EXCEPT !.lock = "none"]

\* Single core: the task runs only while no interrupt handler is active.
Runnable(f) == f = "irq" \/ cpu.pc["irq"] = "idle"

\* With masking, interrupts are disabled from before lock() until after the
\* guard is dropped.
IrqEnabled ==
    ~(/\ cpu.masked
      /\ cpu.pc["task"] # "idle"
      /\ TakesLock(Installed, cpu.req["task"].op))

CanStart(f) ==
    /\ phase = "ready"
    /\ cpu.pc[f] = "idle"
    /\ Runnable(f)
    /\ f = "irq" => IrqEnabled
    /\ nOps + Cardinality({g \in Flows : cpu.pc[g] # "idle"}) < LockMaxOps

Entry(op) == IF TakesLock(Installed, op) THEN "lock" ELSE "body"

\* init_heap, with the kernel masking interrupts around the allocator or not.
LockedBumpInit(hs, sz, masked) ==
    /\ BumpInitCall(hs, sz)
    /\ cpu' = [cpu EXCEPT !.masked = masked]
    /\ UNCHANGED <<disk, kbd, fs, exec, shell>>

LockedBuddyInit(hs, sz, masked) ==
    /\ BuddyInitCall(hs, sz)
    /\ cpu' = [cpu EXCEPT !.masked = masked]
    /\ UNCHANGED <<disk, kbd, fs, exec, shell>>

LockedFixedInit(hs, sz, masked) ==
    /\ FixedInitCall(hs, sz)
    /\ cpu' = [cpu EXCEPT !.masked = masked]
    /\ UNCHANGED <<disk, kbd, fs, exec, shell>>

\* Flow f enters GlobalAlloc::alloc.
EnterAlloc(f, size, align) ==
    /\ CanStart(f)
    /\ cpu' = [cpu EXCEPT !.pc[f] = Entry("alloc"),
                          !.req[f] = Call("alloc", size, align, NULL, NULL, NULL)]
    /\ UNCHANGED <<phase, bump, buddy, mem, fixed, node_next, live, last, nOps, disk, kbd, fs, exec, shell>>

\* Flow f enters GlobalAlloc::dealloc with a live allocation that the other
\* flow is not giving back.
EnterDealloc(f, i) ==
    /\ CanStart(f)
    /\ i \in 1..Len(live)
    /\ ~(cpu.req[Other(f)].op = "dealloc" /\ cpu.req[Other(f)].ptr = live[i].ptr)
    /\ cpu' = [cpu EXCEPT !.pc[f] = Entry("dealloc"),
                          !.req[f] = Call("dealloc", live[i].size, live[i].align,
                                          live[i].ptr, live[i].blk, NULL)]
    /\ UNCHANGED <<phase, bump, buddy, mem, fixed, node_next, live, last, nOps, disk, kbd, fs, exec, shell>>

\* self.lock() returns; while the lock is held by the other flow it spins.
Acquire(f) ==
    /\ cpu.pc[f] = "lock"
    /\ Runnable(f)
    /\ cpu.lock = "none"
    /\ cpu' = [Lock(cpu, f) EXCEPT !.pc[f] = "body"]
    /\ UNCHANGED <<phase, bump, buddy, mem, fixed, node_next, live, last, nOps, disk, kbd, fs, exec, shell>>

\* The method body of the call flow f is in.
Body(f) ==
    /\ cpu.pc[f] = "body"
    /\ Runnable(f)
    /\ \/ /\ cpu.req[f].op = "alloc"
          /\ GlobalAllocCall(cpu.req[f].size, cpu.req[f].align)
       \/ /\ cpu.req[f].op = "dealloc"
          /\ \E i \in 1..Len(live) :
                live[i].ptr = cpu.req[f].ptr /\ GlobalDeallocCall(i)
    /\ cpu' = IF TakesLock(Installed, cpu.req[f].op)
              THEN [cpu EXCEPT !.pc[f] = "unlock"]
              ELSE [cpu EXCEPT !.pc[f] = "idle", !.req[f] = NoCall]
    /\ UNCHANGED <<disk, kbd, fs, exec, shell>>

\* The guard is dropped and the method returns.
Release(f) ==
    /\ cpu.pc[f] = "unlock"
    /\ Runnable(f)
    /\ cpu' = [Unlock(cpu) EXCEPT !.pc[f] = "idle", !.req[f] = NoCall]
    /\ UNCHANGED <<phase, bump, buddy, mem, fixed, node_next, live, last, nOps, disk, kbd, fs, exec, shell>>

\* Flow f runs the body of its call in this step.
Acting(f) == cpu.pc[f] = "body" /\ cpu'.pc[f] # "body"

\* Flow f is between entering the body of a call and returning from it.
Mid(f) == cpu.pc[f] \in {"body", "unlock"}

\* C15 (as claimed): the body of every alloc and dealloc runs with the
\* allocator's lock held by the flow that runs it, and never while the other
\* flow is in the middle of an alloc or dealloc.
C15_StateOnlyUnderLock ==
    [][ \A f \in Flows :
          Acting(f) => cpu.lock = f /\ ~Mid(Other(f)) ]_vars

\* The interrupt handler waits for the lock its interrupted task holds.
Stuck == cpu.pc["irq"] = "lock" /\ cpu.lock = "task"

DISK_BLOCK_SIZE == 4096

\* Disk::new(1024), with two blocks for 1024
DiskNumBlocks == 2

DiskBlockArgs == {0, 1, 2}
DiskOffsets == {0, 4095, 4096}
DiskBufs == {<<>>, <<7>>, <<7, 9>>}

\* Disk::new: every byte of every block is 0.  A block is kept as the bytes
\* written to it; the other bytes are 0.
DiskNew ==
    [blocks |-> [b \in 0..(DiskNumBlocks - 1) |-> <<>>],
     op |-> [name |-> "none", block |-> 0, offset |-> 0, len |-> 0],
     ret |-> "none", buf |-> <<>>, n |-> 0]

\* Disk::size
DiskSize(d) == Cardinality(DOMAIN d.blocks)

\* block.data[o]
DiskByte(d, block, o) ==
    IF o \in DOMAIN d.blocks[block] THEN d.blocks[block][o] ELSE 0

\* Disk::read.  The slice data[offset..offset + buf.len()] panics when its
\* end is behind the block.
DiskReadResult(d, block, offset, buf) ==
    IF block >= DiskSize(d)
    THEN [d EXCEPT !.ret = "BlockOutOfBounds", !.buf = buf]
    ELSE IF offset + Len(buf) > DISK_BLOCK_SIZE
    THEN [d EXCEPT !.ret = "panic", !.buf = buf]
    ELSE [d EXCEPT !.ret = "Ok",
                   !.buf = [i \in 1..Len(buf) |-> DiskByte(d, block, offset + i - 1)]]

\* Disk::write
DiskWriteResult(d, block, offset, buf) ==
    IF block >= DiskSize(d)
    THEN [d EXCEPT !.ret = "BlockOutOfBounds", !.buf = buf]
    ELSE IF offset + Len(buf) > DISK_BLOCK_SIZE
    THEN [d EXCEPT !.ret = "BufferTooLarge", !.buf = buf]
    ELSE [d EXCEPT !.ret = "Ok", !.buf = buf,
                   !.blocks[block] =
                       [o \in DOMAIN d.blocks[block]
                              \cup {offset + i - 1 : i \in 1..Len(buf)} |->
                          IF o >= offset /\ o < offset + Len(buf)
                          THEN buf[o - offset + 1]
                          ELSE d.blocks[block][o]]]

\* disk::read(block, offset, buf); a panic halts the kernel.
DiskRead(block, offset, buf) ==
    /\ disk.ret # "panic"
    /\ disk.n < DiskMaxOps
    /\ disk' = [DiskReadResult(disk, block, offset, buf) EXCEPT
                   !.op = [name |-> "read", block |-> block, offset |-> offset,
                           len |-> Len(buf)],
                   !.n = disk.n + 1]
    /\ UNCHANGED <<allocVars, kbd, fs, exec, shell>>

\* disk::write(block, offset, buf)
DiskWrite(block, offset, buf) ==
    /\ disk.ret # "panic"
    /\ disk.n < DiskMaxOps
    /\ disk' = [DiskWriteResult(disk, block, offset, buf) EXCEPT
                   !.op = [name |-> "write", block |-> block, offset |-> offset,
                           len |-> Len(buf)],
                   !.n = disk.n + 1]
    /\ UNCHANGED <<allocVars, kbd, fs, exec, shell>>

\* C23 (as claimed): on a valid block, read and write both panic when
\* offset + buf.len() exceeds 4096; on a block index >= the disk size both
\* return Err(BlockOutOfBounds) and leave every block as it was.
C23_DiskBoundsPanicOrErr ==
    [][ disk'.n # disk.n =>
          /\ (/\ disk'.op.block < DiskSize(disk)
              /\ disk'.op.offset + disk'.op.len > DISK_BLOCK_SIZE)
             => disk'.ret = "panic"
          /\ disk'.op.block >= DiskSize(disk)
             => (disk'.ret = "BlockOutOfBounds" /\ disk'.blocks = disk.blocks) ]_vars

\* =============================== task/keyboard.rs: the scancode stream

\* ArrayQueue::new(100), with room for two scancodes here
KbdQueueCap == 2

Scancodes == {30, 31}

\* SCANCODE_QUEUE uninitialised, WAKER empty; the task has not yet created
\* its ScancodeStream and the interrupt handler is not running.
\*   waker: WAKER holds the waker of the task
\*   woken: that waker was woken and the task not polled since
\*   pc:    where the task is (new, pop1, register, pop2, pending)
\*   irq:   where add_scancode is (idle, wake)
KbdNew ==
    [init |-> FALSE, queue |-> <<>>, waker |-> FALSE, woken |-> FALSE,
     pc |-> "new", irq |-> "idle", got |-> <<>>, dropped |-> 0, n |-> 0]

\* ArrayQueue::push: Err when the queue is full
QueueFull(q) == Len(q) >= KbdQueueCap

\* One hardware thread: the task runs only while no handler is running.
KbdTaskRuns == kbd.irq = "idle"

\* ScancodeStream::new
StreamNew ==
    /\ KbdTaskRuns
    /\ kbd.pc = "new"
    /\ kbd' = [kbd EXCEPT !.init = TRUE, !.pc = "pop1"]
    /\ UNCHANGED <<allocVars, disk, fs, exec, shell>>

\* poll_next, the first queue.pop(): Ready(Some(c)) hands c to the loop of
\* process_keypresses, which polls again.
PollFirstPop(k) ==
    IF k.queue # <<>>
    THEN [k EXCEPT !.got = Append(k.got, Head(k.queue)),
                   !.queue = Tail(k.queue), !.pc = "pop1"]
    ELSE [k EXCEPT !.pc = "register"]

\* poll_next, WAKER.register(&cx.waker())
PollRegister(k) == [k EXCEPT !.waker = TRUE, !.pc = "pop2"]

\* the second pop of poll_next, skipped: Pending right after register
PollSecondPop_Skip(k) == [k EXCEPT !.pc = "pending"]

\* poll_next, the second queue.pop(): Some(c) takes the waker back and is
\* Ready, None is Pending.
PollSecondPop(k) ==
    IF k.queue # <<>>
    THEN [k EXCEPT !.got = Append(k.got, Head(k.queue)),
                   !.queue = Tail(k.queue), !.waker = FALSE, !.pc = "pop1"]
    ELSE [k EXCEPT !.pc = "pending"]

PollStep ==
    /\ KbdTaskRuns
    /\ kbd.pc \in {"pop1", "register", "pop2"}
    /\ kbd' = CASE kbd.pc = "pop1" -> PollFirstPop(kbd)
                [] kbd.pc = "register" -> PollRegister(kbd)
                [] kbd.pc = "pop2" -> PollSecondPop(kbd)
    /\ UNCHANGED <<allocVars, disk, fs, exec, shell>>

\* The executor polls the task again once its waker was woken.
Repoll ==
    /\ KbdTaskRuns
    /\ kbd.pc = "pending"
    /\ kbd.woken
    /\ kbd' = [kbd EXCEPT !.woken = FALSE, !.pc = "pop1"]
    /\ UNCHANGED <<allocVars, disk, fs, exec, shell>>

\* add_scancode up to the push: nothing but a warning when the queue is
\* uninitialised or full.
AddScancodePush(scancode) ==
    /\ kbd.irq = "idle"
    /\ kbd.n < KbdMaxKeys
    /\ kbd' = IF ~kbd.init \/ QueueFull(kbd.queue)
              THEN [kbd EXCEPT !.dropped = kbd.dropped + 1, !.n = kbd.n + 1]
              ELSE [kbd EXCEPT !.queue = Append(kbd.queue, scancode),
                               !.irq = "wake", !.n = kbd.n + 1]
    /\ UNCHANGED <<allocVars, disk, fs, exec, shell>>

\* add_scancode, WAKER.wake(): takes the registered waker, if any, and wakes it
AddScancodeWake ==
    /\ kbd.irq = "wake"
    /\ kbd' = IF kbd.waker
              THEN [kbd EXCEPT !.waker = FALSE, !.woken = TRUE, !.irq = "idle"]
              ELSE [kbd EXCEPT !.irq = "idle"]
    /\ UNCHANGED <<allocVars, disk, fs, exec, shell>>

\* C31: no wake-up is lost.  A poll returns Pending only with an empty queue
\* or with its wake-up already under way; a wake() that follows a push while
\* the task is Pending leaves the task woken; and the task is never Pending
\* with a scancode in the queue unless it was woken or the handler that pushed
\* is about to wake the registered waker.
C31_NoLostWakeup ==
    /\ [](kbd.pc = "pending" /\ kbd.queue # <<>>
            => (kbd.woken \/ (kbd.irq = "wake" /\ kbd.waker)))
    /\ [][ /\ (kbd.pc = "pop2" /\ kbd'.pc = "pending")
                => (kbd'.queue = <<>> /\ kbd'.waker)
           /\ (kbd.irq = "wake" /\ kbd'.irq = "idle" /\ kbd.pc = "pending")
                => kbd'.woken
           /\ (kbd.irq = "wake" /\ kbd'.irq = "idle" /\ kbd.pc = "pop2")
                => (kbd'.woken /\ kbd'.queue # <<>>) ]_vars

\* The task received a scancode, polled again and is Pending; the handler
\* then pushed another and woke the waker that poll had registered.
C31_Witness ==
    /\ kbd.pc = "pending"
    /\ kbd.queue # <<>>
    /\ kbd.woken
    /\ ~kbd.waker
    /\ kbd.irq = "idle"
    /\ kbd.got # <<>>

\* ============================================ fs/file.rs: the file system

\* u64::BITS: a word of block_bitmap is kept as the set of its one bits
WORD_BITS == 64

INODE_BLOCKS_START == 1

\* BLOCK_SIZE / size_of::<Inode>(): bool, usize, 11 + 1 Option<NonZeroU32>
INODES_PER_BLOCK == 64

\* const MAGIC_NUMBER: usize = 0xdeadbeef
MAGIC_NUMBER == "0xdeadbeef"

\* 0xbbbbbbbbbbbbbbbb: every nibble is 1011
Word0xbb == {i \in 0..(WORD_BITS - 1) : i % 4 # 2}

\* Inode::new(valid); direct lists the Some pointers in order, indirect 0 is None
InodeNew(valid) == [valid |-> valid, direct |-> <<>>, indirect |-> 0]

\* FileSystem::new, on a disk of zeros
FsNew ==
    [state |-> "new",
     superblock |-> [magic_number |-> "0", blocks |-> 0, inode_blocks |-> 0, inodes |-> 0],
     block_bitmap |-> <<>>,     \* Vec<u64>, each word the set of its one bits
     inodes |-> [i \in {0, INODES_PER_BLOCK} |-> InodeNew(FALSE)],
     op |-> [name |-> "none", arg |-> 0, marks |-> <<>>], n |-> 0]

\* inumbers at byte offset 0 of their inode block (calc_inode_pos)
FsINumbers == DOMAIN FsNew.inodes

\* inode images a raw disk::write can put at an inode's position
FsInodes ==
    {InodeNew(FALSE), InodeNew(TRUE),
     [valid |-> TRUE, direct |-> <<9>>, indirect |-> 0],
     [valid |-> TRUE, direct |-> <<1, 70>>, indirect |-> 0],
     [valid |-> TRUE, direct |-> <<9>>, indirect |-> 20]}

\* the superblock FileSystem::format writes for a disk of `blocks` blocks
FormatSuperblock(blocks) ==
    [magic_number |-> MAGIC_NUMBER, blocks |-> blocks,
     inode_blocks |-> blocks \div 10 + 1,
     inodes |-> (blocks \div 10 + 1) * INODES_PER_BLOCK]

\* What mount reads as the superblock.  Block::from_le_bytes reinterprets
\* the first bytes of the buffer as a reference, so the read is undefined:
\* it faults, or yields some superblock, among them the formatted ones.
FsSuperblocks ==
    {FormatSuperblock(b) : b \in {0, 64, 128}}
        \cup {[FormatSuperblock(64) EXCEPT !.magic_number = "0"]}

\* Direct pointers of the valid inodes mount finds in the inode blocks,
\* read through the same reinterpreted reference.
FsSeenPointers == {<<>>, <<9>>, <<9, 70>>}

\* Pointers delete finds in an indirect block (block.pointers)
FsPointerBlocks == {<<>>, <<21>>}

\* block_bitmap[idx] panics when idx is out of range
MarkPanics(block_bitmap, block_idx) ==
    block_idx \div WORD_BITS + 1 > Len(block_bitmap)

\* mark_block: clears the block's bit, then sets bit 1 << free as u64, that
\* is bit 1 for free and bit 0 for busy.
mark_block(block_bitmap, block_idx, free) ==
    LET idx == block_idx \div WORD_BITS + 1
        offset == block_idx % WORD_BITS
    IN [block_bitmap EXCEPT
          ![idx] = (@ \ {offset}) \cup {IF free THEN 1 ELSE 0}]

\* is_free
is_free(block_bitmap, block_idx) ==
    block_idx % WORD_BITS \in block_bitmap[block_idx \div WORD_BITS + 1]

\* mark_block for each pointer in turn; the walk ends at a panic
RECURSIVE mark_all(_, _, _)
mark_all(block_bitmap, ptrs, free) ==
    IF ptrs = <<>> \/ MarkPanics(block_bitmap, Head(ptrs)) THEN block_bitmap
    ELSE mark_all(mark_block(block_bitmap, Head(ptrs), free), Tail(ptrs), free)

\* some mark_block of the walk panics
AnyMarkPanics(block_bitmap, ptrs) ==
    \E i \in DOMAIN ptrs : MarkPanics(block_bitmap, ptrs[i])

FsRuns == fs.state # "panic" /\ fs.n < FsMaxOps

\* the last call: its name, its argument and the blocks it marked
FsDone(name, arg, marks) == [name |-> name, arg |-> arg, marks |-> marks]

\* disk::write of an inode image to the position of inode inumber
FsPutInode(inumber, inode) ==
    /\ FsRuns
    /\ fs.inodes[inumber] # inode
    /\ fs' = [fs EXCEPT !.inodes[inumber] = inode,
                        !.op = FsDone("put", inumber, <<>>), !.n = fs.n + 1]
    /\ UNCHANGED <<allocVars, disk, kbd, exec, shell>>

\* FileSystem::format: the superblock, and zeros over the inode blocks
FsFormat ==
    /\ FsRuns
    /\ fs' = [fs EXCEPT !.inodes = [i \in FsINumbers |-> InodeNew(FALSE)],
                        !.op = FsDone("format", 0, <<>>), !.n = fs.n + 1]
    /\ UNCHANGED <<allocVars, disk, kbd, exec, shell>>

\* the blocks mount marks busy: each inode block, then the pointers seen
MountMarks(sb, seen) ==
    [i \in 1..sb.inode_blocks |-> INODE_BLOCKS_START + i - 1] \o seen

\* the bitmap of mount before the inode blocks are read
MountFresh(sb) == [w \in 1..(sb.blocks \div WORD_BITS) |-> Word0xbb]

\* block_bitmap[0] of an empty bitmap, or a mark outside the bitmap
MountPanics(sb, seen) ==
    MountFresh(sb) = <<>> \/ AnyMarkPanics(MountFresh(sb), MountMarks(sb, seen))

\* the bitmap mount builds from superblock sb and the pointers it sees
MountBitmap(sb, seen) ==
    mark_all([MountFresh(sb) EXCEPT ![1] = @ \ {0}], MountMarks(sb, seen), FALSE)

\* FileSystem::mount.  self.superblock is not assigned.
FsMount(sb, seen, fault) ==
    /\ FsRuns
    /\ fs' = IF fault \/ sb.magic_number # MAGIC_NUMBER \/ MountPanics(sb, seen)
             THEN [fs EXCEPT !.state = "panic",
                             !.op = FsDone("mount", sb.inode_blocks, <<>>),
                             !.n = fs.n + 1]
             ELSE [fs EXCEPT !.state = "mounted",
                             !.block_bitmap = MountBitmap(sb, seen),
                             !.op = FsDone("mount", sb.inode_blocks, MountMarks(sb, seen)),
                             !.n = fs.n + 1]
    /\ UNCHANGED <<allocVars, disk, kbd, exec, shell>>

\* FileSystem::create: next_free_inode walks self.superblock.inode_blocks
\* inode blocks, which mount left at 0, and finds nothing.
FsCreate ==
    /\ FsRuns
    /\ fs.superblock.inode_blocks = 0
    /\ fs' = [fs EXCEPT !.op = FsDone("create", 0, <<>>), !.n = fs.n + 1]
    /\ UNCHANGED <<allocVars, disk, kbd, exec, shell>>

\* FileSystem::delete
FsDelete(inumber, pointers, fault) ==
    /\ FsRuns
    /\ LET inode == fs.inodes[inumber]
           marks == IF inode.indirect = 0 THEN inode.direct
                    ELSE inode.direct \o pointers
       IN fs' = IF \/ inode.indirect # 0 /\ fault
                   \/ AnyMarkPanics(fs.block_bitmap, marks)
                THEN [fs EXCEPT !.state = "panic",
                                !.op = FsDone("delete", inumber, <<>>),
                                !.n = fs.n + 1]
                ELSE [fs EXCEPT !.block_bitmap = mark_all(@, marks, TRUE),
                                !.inodes[inumber] = InodeNew(FALSE),
                                !.op = FsDone("delete", inumber, marks),
                                !.n = fs.n + 1]
    /\ UNCHANGED <<allocVars, disk, kbd, exec, shell>>

\* blocks the bitmap of a mounted file system covers
BitmapBlocks == 0..(Len(fs.block_bitmap) * WORD_BITS - 1)

\* the elements of a sequence
Range(seq) == {seq[i] : i \in DOMAIN seq}

\* C32 (as claimed): mark_block(b, free) makes is_free(b) equal to free and
\* keeps the status of every other block; after mount the superblock and the
\* inode blocks read as busy; delete turns free only the data blocks of the
\* deleted inode and changes no other block.
C32_BitmapMarkExact ==
    /\ [](fs.state = "mounted" =>
            \A b \in BitmapBlocks \ {0} : \A free \in BOOLEAN :
                LET after == mark_block(fs.block_bitmap, b, free)
                IN /\ is_free(after, b) = free
                   /\ \A c \in BitmapBlocks \ {b} :
                        is_free(after, c) = is_free(fs.block_bitmap, c))
    /\ [][ (fs'.op.name = "mount" /\ fs'.n # fs.n /\ fs'.state = "mounted") =>
              \A b \in 0..fs'.op.arg : ~is_free(fs'.block_bitmap, b) ]_vars
    /\ [][ (fs'.op.name = "delete" /\ fs'.n # fs.n /\ fs'.state = "mounted") =>
              LET freed == Range(fs'.op.marks)
              IN \A b \in BitmapBlocks :
                    is_free(fs'.block_bitmap, b) =
                        (b \in freed \/ is_free(fs.block_bitmap, b)) ]_vars

\* ============================ task/simple_executor.rs: SimpleExecutor

\* a future that is Pending at every poll
Never == -1

\* polls that return Pending before a spawned future is Ready
TaskPendings == {0, 1, 2, Never}

\* SimpleExecutor::new; Task ids come from NEXT_ID, starting at 0.
\*   left:  for each task, the Pending polls it still has before Ready
\*   ready: the tasks that returned Ready
\*   state: "idle" outside run, "running" inside its loop
ExecNew ==
    [queue |-> <<>>, left |-> <<>>, ready |-> {}, state |-> "idle",
     next_id |-> 0, poll |-> [task |-> Never, ret |-> "none"], returns |-> 0]

\* Task::new and spawn: queue.push_back(task)
Spawn(pendings) ==
    /\ exec.state = "idle"
    /\ exec.next_id < ExecMaxTasks
    /\ exec' = [exec EXCEPT !.queue = Append(exec.queue, exec.next_id),
                            !.left = exec.left @@ (exec.next_id :> pendings),
                            !.next_id = exec.next_id + 1]
    /\ UNCHANGED <<allocVars, disk, kbd, fs, shell>>

\* run is called
RunCall ==
    /\ exec.state = "idle"
    /\ exec' = [exec EXCEPT !.state = "running",
                            !.poll = [task |-> Never, ret |-> "none"]]
    /\ UNCHANGED <<allocVars, disk, kbd, fs, shell>>

\* task.poll(&mut context)
task_poll(left) == IF left = 0 THEN "Ready" ELSE "Pending"

\* Poll::Pending => the task goes to the front of the queue
run_pending_Front(queue, task) == <<task>> \o queue

\* Poll::Pending => self.queue.push_back(task)
run_pending(queue, task) == Append(queue, task)

\* one turn of the loop of run: pop_front, poll, Ready drops the task
RunPoll ==
    /\ exec.state = "running"
    /\ exec.queue # <<>>
    /\ LET task == Head(exec.queue)
           rest == Tail(exec.queue)
           ret == task_poll(exec.left[task])
       IN exec' = IF ret = "Ready"
                  THEN [exec EXCEPT !.queue = rest, !.ready = @ \cup {task},
                                    !.poll = [task |-> task, ret |-> ret]]
                  ELSE [exec EXCEPT !.queue = run_pending(rest, task),
                                    !.left[task] = IF @ = Never THEN Never ELSE @ - 1,
                                    !.poll = [task |-> task, ret |-> ret]]
    /\ UNCHANGED <<allocVars, disk, kbd, fs, shell>>

\* pop_front is None: run returns
RunReturn ==
    /\ exec.state = "running"
    /\ exec.queue = <<>>
    /\ exec' = [exec EXCEPT !.state = "idle",
                            !.returns = IF @ < ExecMaxTasks THEN @ + 1 ELSE @]
    /\ UNCHANGED <<allocVars, disk, kbd, fs, shell>>

\* C33: run polls the head of the queue; a Pending task goes to the back
\* behind all other queued tasks, in their order; a Ready task leaves the
\* queue and is never queued or polled again; run returns only from an empty
\* queue and never leaves a non-empty one unpolled; with a task that is
\* never Ready queued, run does not return, and with every queued task
\* eventually Ready, run returns.
C33_SimpleExecutorRoundRobin ==
    /\ [][ (exec.state = "running" /\ exec'.state = "running" /\ exec' # exec) =>
              /\ exec.queue # <<>>
              /\ exec'.poll.task = Head(exec.queue)
              /\ exec'.poll.task \notin exec.ready
              /\ exec'.poll.ret = "Pending"
                    => (/\ exec'.queue = Append(Tail(exec.queue), Head(exec.queue))
                        /\ exec'.ready = exec.ready)
              /\ exec'.poll.ret = "Ready"
                    => (/\ exec'.queue = Tail(exec.queue)
                        /\ exec'.ready = exec.ready \cup {Head(exec.queue)}) ]_vars
    /\ [](\A i \in DOMAIN exec.queue : exec.queue[i] \notin exec.ready)
    /\ [][ (exec.state = "running" /\ exec'.state = "idle") =>
              (exec.queue = <<>> /\ exec'.queue = <<>>) ]_vars
    /\ [][ (exec.state = "running" /\ exec.queue = <<>> /\ exec' # exec) =>
              exec'.state = "idle" ]_vars
    /\ [][ (exec.state = "running"
              /\ \E i \in DOMAIN exec.queue : exec.left[exec.queue[i]] = Never) =>
              exec'.state = "running" ]_vars
    /\ (exec.state = "running"
          /\ \A i \in DOMAIN exec.queue : exec.left[exec.queue[i]] # Never)
         ~> (exec.state = "idle" /\ exec.queue = <<>>)

\* Three tasks were spawned; the third was Ready at its first poll, the
\* first was Pending twice and now waits behind the second.
C33_Witness ==
    /\ exec.state = "running"
    /\ exec.queue = <<1, 0>>
    /\ exec.ready = {2}
    /\ exec.poll = [task |-> 0, ret |-> "Pending"]

\* ==================================================== shell.rs: Shell

\* Shell::new
ShellNew ==
    [buffer |-> <<>>, cursor_pos |-> 0, command_history |-> <<>>,
     command_history_index |-> 0, panic |-> FALSE]

\* DecodedKey: Unicode('\n'), Unicode('\u{8}'), other characters, raw keys
ShellKeys ==
    {[kind |-> "Unicode", c |-> c] : c \in {"a", " ", "Enter", "Backspace"}}
        \cup {[kind |-> "RawKey", c |-> k] :
                k \in {"ArrowUp", "ArrowDown", "ArrowLeft", "ArrowRight", "Home"}}

\* Vec::insert(index, element) panics if index > len
VecInsertPanics(v, index) == index > Len(v)

VecInsert(v, index, element) ==
    SubSeq(v, 1, index) \o <<element>> \o SubSeq(v, index + 1, Len(v))

\* Vec::remove(index) panics if index >= len
VecRemovePanics(v, index) == index >= Len(v)

VecRemove(v, index) == SubSeq(v, 1, index) \o SubSeq(v, index + 2, Len(v))

\* replace_buffer_with_past_command; get(len - index).unwrap() panics when
\* the subtraction underflows or the index is not below len.
replace_buffer_with_past_command(s) ==
    LET len == Len(s.command_history)
        at == len - s.command_history_index
    IN IF s.command_history_index = 0
       THEN [s EXCEPT !.buffer = <<>>, !.cursor_pos = 0]
       ELSE IF at < 0 \/ at >= len
       THEN [s EXCEPT !.panic = TRUE]
       ELSE [s EXCEPT !.buffer = s.command_history[at + 1],
                      !.cursor_pos = Len(s.command_history[at + 1])]

\* process_buffer: an empty command returns at once
process_buffer(s) ==
    IF s.buffer = <<>> THEN s
    ELSE [s EXCEPT !.command_history = Append(@, s.buffer),
                   !.buffer = <<>>, !.cursor_pos = 0]

\* process_unicode
process_unicode(s, c) ==
    CASE c = "Enter" -> process_buffer(s)
      [] c = "Backspace" ->
            IF s.cursor_pos = 0 THEN s
            ELSE LET pos == s.cursor_pos - 1
                 IN IF pos = Len(s.buffer)
                    THEN [s EXCEPT !.cursor_pos = pos,
                                   !.buffer = SubSeq(@, 1, Len(@) - 1)]
                    ELSE IF VecRemovePanics(s.buffer, pos)
                    THEN [s EXCEPT !.cursor_pos = pos, !.panic = TRUE]
                    ELSE [s EXCEPT !.cursor_pos = pos,
                                   !.buffer = VecRemove(@, pos)]
      [] OTHER ->
            IF s.cursor_pos = Len(s.buffer)
            THEN [s EXCEPT !.buffer = Append(@, c), !.cursor_pos = @ + 1]
            ELSE IF VecInsertPanics(s.buffer, s.cursor_pos)
            THEN [s EXCEPT !.panic = TRUE]
            ELSE [s EXCEPT !.buffer = VecInsert(@, s.cursor_pos, c),
                           !.cursor_pos = @ + 1]

\* KC::ArrowRight without the min
ArrowRightPos_NoMin(s) == s.cursor_pos + 1

\* KC::ArrowRight: self.buffer.len().min(self.cursor_pos + 1)
ArrowRightPos(s) ==
    IF Len(s.buffer) < s.cursor_pos + 1 THEN Len(s.buffer) ELSE s.cursor_pos + 1

\* handle_keypress
handle_keypress(s, key) ==
    CASE key.kind = "Unicode" -> process_unicode(s, key.c)
      [] key.c = "ArrowUp" ->
            IF s.command_history_index < Len(s.command_history)
            THEN replace_buffer_with_past_command(
                     [s EXCEPT !.command_history_index = @ + 1])
            ELSE s
      [] key.c = "ArrowDown" ->
            IF s.command_history_index > 0
            THEN replace_buffer_with_past_command(
                     [s EXCEPT !.command_history_index = @ - 1])
            ELSE s
      [] key.c = "ArrowLeft" ->
            [s EXCEPT !.cursor_pos = IF @ >= 1 THEN @ - 1 ELSE 0]
      [] key.c = "ArrowRight" -> [s EXCEPT !.cursor_pos = ArrowRightPos(s)]
      [] OTHER -> s

\* a key press that lets the buffer or the history grow
Grows(key) ==
    \/ key.kind = "Unicode" /\ key.c \notin {"Enter", "Backspace"}
          /\ Len(shell.buffer) >= ShellMaxLen
    \/ key.kind = "Unicode" /\ key.c = "Enter" /\ shell.buffer # <<>>
          /\ Len(shell.command_history) >= ShellMaxHistory

\* the keyboard task hands a decoded key to the shell; a panic halts
KeyPress(key) ==
    /\ ~shell.panic
    /\ ~Grows(key)
    /\ shell' = handle_keypress(shell, key)
    /\ UNCHANGED <<allocVars, disk, kbd, fs, exec>>

\* C34: after any sequence of key presses cursor_pos <= buffer.len() and
\* command_history_index <= command_history.len(), and no key press panics
\* on an out-of-range insert, remove or history lookup.
C34_ShellCursorAndHistoryInRange ==
    /\ shell.cursor_pos <= Len(shell.buffer)
    /\ shell.command_history_index <= Len(shell.command_history)
    /\ ~shell.panic

\* The older of two commands is recalled (ArrowUp twice) and its first
\* character is gone from the buffer, the cursor standing left of the rest.
C34_Witness ==
    /\ Len(shell.command_history) = 2
    /\ shell.command_history_index = 2
    /\ Len(shell.command_history[1]) = 2
    /\ shell.command_history[1][1] # shell.command_history[1][2]
    /\ shell.buffer = <<shell.command_history[1][2]>>
    /\ shell.cursor_pos = 0

\* ================================================================ specs

Init ==
    /\ phase = "new"
    /\ bump = BumpNew
    /\ buddy = [heap_start |-> 0, heap_order |-> 0]
    /\ mem = <<>>
    /\ fixed = [heap_start |-> 0, heap_size |-> 0, used_memory |-> 0,
                free_list |-> [i \in 0..(NumClasses - 1) |-> NULL]]
    /\ node_next = <<>>
    /\ live = <<>>
    /\ last = NoCall
    /\ nOps = 0
    /\ cpu = CpuNew
    /\ disk = DiskNew
    /\ kbd = KbdNew
    /\ fs = FsNew
    /\ exec = ExecNew
    /\ shell = ShellNew

NextBump ==
    \/ \E hs \in BumpHeapStarts, sz \in BumpHeapSizes : BumpInit(hs, sz)
    \/ \E size \in BumpSizes, align \in BumpAligns : BumpAlloc(size, align)
    \/ \E i \in 1..BumpMaxLive : BumpDealloc(i)

SpecBump == Init /\ [][NextBump]_vars

NextBuddy ==
    \/ \E hs \in BuddyHeapStarts, sz \in BuddyHeapSizes : BuddyInit(hs, sz)
    \/ \E size \in BuddySizes, align \in BuddyAligns : BuddyAlloc(size, align)
    \/ \E i \in 1..BuddyMaxLive : BuddyDealloc(i)

SpecBuddy == Init /\ [][NextBuddy]_vars

NextFixed ==
    \/ \E hs \in FixedHeapStarts, sz \in FixedHeapSizes : FixedInit(hs, sz)
    \/ \E l \in FixedLayouts : FixedAlloc(l[1], l[2])
    \/ \E i \in 1..FixedMaxLive : FixedDealloc(i)

SpecFixed == Init /\ [][NextFixed]_vars

NextCycle ==
    \/ \E hs \in CycleHeapStarts, sz \in CycleHeapSizes : BumpInit(hs, sz)
    \/ \E hs \in CycleHeapStarts, sz \in CycleHeapSizes : BuddyInit(hs, sz)
    \/ \E hs \in CycleHeapStarts, sz \in CycleHeapSizes : FixedInit(hs, sz)
    \/ \E l \in CycleLayouts : CycleAlloc(l)
    \/ CycleDealloc

SpecCycle == Init /\ [][NextCycle]_vars

NextZero ==
    \/ \E hs \in ZeroHeapStarts, sz \in ZeroHeapSizes : BumpInit(hs, sz)
    \/ \E hs \in ZeroHeapStarts, sz \in ZeroHeapSizes : BuddyInit(hs, sz)
    \/ \E hs \in ZeroHeapStarts, sz \in ZeroHeapSizes : FixedInit(hs, sz)
    \/ \E l \in ZeroLayouts : ZeroAlloc(l[1], l[2])
    \/ \E i \in 1..ZeroMaxLive : ZeroDealloc(i)

SpecZero == Init /\ [][NextZero]_vars

NextLocked ==
    \/ \E hs \in LockHeapStarts, sz \in LockHeapSizes, masked \in BOOLEAN :
          LockedBumpInit(hs, sz, masked)
    \/ \E hs \in LockHeapStarts, sz \in LockHeapSizes, masked \in BOOLEAN :
          LockedBuddyInit(hs, sz, masked)
    \/ \E hs \in LockHeapStarts, sz \in LockHeapSizes, masked \in BOOLEAN :
          LockedFixedInit(hs, sz, masked)
    \/ \E f \in Flows, l \in LockLayouts : EnterAlloc(f, l[1], l[2])
    \/ \E f \in Flows, i \in 1..LockMaxOps : EnterDealloc(f, i)
    \/ \E f \in Flows : Acquire(f)
    \/ \E f \in Flows : Body(f)
    \/ \E f \in Flows : Release(f)

\* The core keeps executing instructions: a step that is possible is taken.
SpecLocked == Init /\ [][NextLocked]_vars /\ WF_vars(NextLocked)

NextDisk ==
    \/ \E block \in DiskBlockArgs, offset \in DiskOffsets, buf \in DiskBufs :
          DiskRead(block, offset, buf)
    \/ \E block \in DiskBlockArgs, offset \in DiskOffsets, buf \in DiskBufs :
          DiskWrite(block, offset, buf)

SpecDisk == Init /\ [][NextDisk]_vars

NextKeyboard ==
    \/ StreamNew
    \/ PollStep
    \/ Repoll
    \/ \E scancode \in Scancodes : AddScancodePush(scancode)
    \/ AddScancodeWake

SpecKeyboard == Init /\ [][NextKeyboard]_vars

NextFs ==
    \/ \E inumber \in FsINumbers, inode \in FsInodes : FsPutInode(inumber, inode)
    \/ FsFormat
    \/ \E sb \in FsSuperblocks, seen \in FsSeenPointers, fault \in BOOLEAN :
          FsMount(sb, seen, fault)
    \/ FsCreate
    \/ \E inumber \in FsINumbers, pointers \in FsPointerBlocks, fault \in BOOLEAN :
          FsDelete(inumber, pointers, fault)

SpecFs == Init /\ [][NextFs]_vars

NextExec ==
    \/ \E pendings \in TaskPendings : Spawn(pendings)
    \/ RunCall
    \/ RunPoll
    \/ RunReturn

\* run is a plain loop: it keeps taking turns and returns once the queue
\* is empty
SpecExec == Init /\ [][NextExec]_vars /\ WF_vars(RunPoll) /\ WF_vars(RunReturn)

NextShell == \E key \in ShellKeys : KeyPress(key)

SpecShell == Init /\ [][NextShell]_vars

====
